---------------------------- MODULE Spec2Model ----------------------------
(***************************************************************************)
(* Trade Enrichment & Behavioral Scoring Engine                            *)
(* (src/app/routers/analysis.py, src/app/services/market.py,               *)
(*  src/app/services/patterns.py).                                         *)
(*                                                                         *)
(* Number representation.  Python floats are modelled in fixed point:      *)
(*   - scores, ratios, returns, rates : thousandths (1.0 is 1000);         *)
(*   - money (pnl, regret, losses)    : thousandths of a currency unit;    *)
(*   - volume / regime weights        : tenths (1.2 is 12);                *)
(*   - truth-score terms              : thousandths of a point.            *)
(* Prices and quantities of the upload are whole numbers, so pnl and the   *)
(* transaction cost (0.3 % of the traded value) are exact in thousandths.  *)
(* Timestamps are whole hours since an epoch midnight; a calendar day is   *)
(* hour \div 24.  The sentinel -1.0 is -1000.                              *)
(***************************************************************************)
EXTENDS Integers, Sequences, FiniteSets, TLC

VARIABLES
    rows,             \* the uploaded CSV rows, each with the market context of its key
    pc,               \* position of analyze_trades in its pipeline
    enriched_trades,  \* list built by the per-row loop
    trades_df,        \* the DataFrame sorted by entry_dt
    revenge_count,    \* running count of the revenge scan
    agg,              \* portfolio aggregates (locals of analyze_trades)
    response,         \* the AnalysisResponse under construction
    rng,              \* state of the process-wide numpy random generator
    served,           \* requests completed by this process
    luck_log,         \* the (rows, luck_percentile) of every answered request, in order
    printed,          \* the error messages printed so far
    call,             \* a helper called on its own: its name and arguments (<<>> in a request)
    ret,              \* what that call returned, as a one-element list (<<>> before it returns)
    cache,            \* the lru_cache of fetch_market_data_cached: key -> bar frame
    inflight          \* the requests that are reading the cache, each at its own position

vars == <<rows, pc, enriched_trades, trades_df, revenge_count, agg, response,
          rng, served, luck_log, printed, call, ret, cache, inflight>>

-----------------------------------------------------------------------------
(* Bounds of the model *)

MaxTrades == 3
MaxGateTrades == 6
MaxPrice == 6
MaxRequests == 3
MaxTrials == 3

-----------------------------------------------------------------------------
(* Python built-ins on numbers *)

Min(a, b) == IF b < a THEN b ELSE a

Max(a, b) == IF b > a THEN b ELSE a

Abs(a) == IF a < 0 THEN -a ELSE a

\* n / d as a float, in thousandths
Fx(n, d) == (n * 1000) \div d

RECURSIVE SumSeq(_)
SumSeq(s) == IF s = <<>> THEN 0 ELSE Head(s) + SumSeq(Tail(s))

\* Series.mean() of an integer column, in the column's unit (0 for an empty one
\* where the caller guards emptiness)
Mean(s) == IF s = <<>> THEN 0 ELSE SumSeq(s) \div Len(s)

RECURSIVE Isqrt(_, _, _)
\* largest r in lo..hi with r * r <= n (bisection)
Isqrt(n, lo, hi) ==
    IF lo >= hi THEN lo
    ELSE LET mid == (lo + hi + 1) \div 2
         IN  IF mid * mid <= n THEN Isqrt(n, mid, hi) ELSE Isqrt(n, lo, mid - 1)

RECURSIVE ShiftDiv(_, _, _, _)
\* long division: n more decimal digits of a quotient q with remainder r over c
ShiftDiv(q, r, c, n) ==
    IF n = 0 THEN q ELSE ShiftDiv(q * 10 + (r * 10) \div c, (r * 10) % c, c, n - 1)

\* a / c scaled by 10^n, for c > 0, truncated
Ratio10(a, c, n) ==
    IF a >= 0 THEN ShiftDiv(a \div c, a % c, c, n)
    ELSE -ShiftDiv((-a) \div c, (-a) % c, c, n)

\* np.sqrt of a non-negative number, rounded down
Sqrt(n) == IF n <= 0 THEN 0 ELSE Isqrt(n, 0, Min(n, 46340))

-----------------------------------------------------------------------------
(* market.py: per-trade metric calculator *)

\* metrics of a trade whose market data is missing or whose calculation raised
SentinelMetrics ==
    [fomo_score |-> -1000, panic_score |-> -1000,
     fomo_score_base |-> -1000, panic_score_base |-> -1000,
     volume_weight_entry |-> 10, volume_weight_exit |-> 10,
     mae |-> 0, mfe |-> 0, efficiency |-> 0, regret |-> 0,
     entry_day_high |-> 0, entry_day_low |-> 0,
     exit_day_high |-> 0, exit_day_low |-> 0,
     exc |-> FALSE]

calculate_volume_weight(current_volume, avg_volume) ==
    IF avg_volume <= 0 THEN 10
    ELSE IF current_volume < avg_volume THEN 10        \* ratio < 1.0
    ELSE IF 2 * current_volume < 5 * avg_volume THEN 10 \* ratio < 2.5
    ELSE IF current_volume < 5 * avg_volume THEN 12     \* ratio < 5.0
    ELSE 15

\* volume weight of a day given the bars up to it (lines 355-365, 384-394)
VolumeWeightAt(hist, vol, avg) ==
    IF hist /\ avg > 0 THEN calculate_volume_weight(vol, avg) ELSE 10

\* the score left as computed, without the clamp
Clamp01_Unclamped(x) == x

\* max(0.0, min(1.0, x)) in thousandths
Clamp01(x) == Max(0, Min(1000, x))

\* the volume weight applied to every base score, whatever its level
ContextualFomo_Always(fomo_score_base, volume_weight_entry) ==
    Min(1000, (fomo_score_base * volume_weight_entry) \div 10)

\* lines 367-370: the entry-side weight is applied only above the 0.7 threshold
ContextualFomo(fomo_score_base, volume_weight_entry) ==
    IF volume_weight_entry > 10 /\ fomo_score_base > 700
    THEN Min(1000, (fomo_score_base * volume_weight_entry) \div 10)
    ELSE fomo_score_base

\* lines 396-400: the exit-side weight is applied only below the 0.3 threshold
ContextualPanic(panic_score_base, volume_weight_exit) ==
    IF volume_weight_exit > 10 /\ panic_score_base < 300
    THEN Max(0, (panic_score_base * (20 - volume_weight_exit)) \div 10)
    ELSE panic_score_base

\* split_ratio left at 1.0 whatever the prices
SplitApplies_Never(user_price, market_high) == FALSE

\* lines 293-298: split_ratio = user_price / market_high when that ratio is > 2.0
\* or < 0.5
SplitApplies(user_price, market_high) ==
    market_high > 0 /\ (user_price > 2 * market_high \/ 2 * user_price < market_high)

\* the body of the try block of calculate_metrics; exc = TRUE when it raises
calculate_metrics_try(row, df) ==
    IF df.raises THEN [SentinelMetrics EXCEPT !.exc = TRUE]
    ELSE
    LET market_high == df.eHigh
        user_price  == row.entry_price
        user_exit_price == row.exit_price
        split == SplitApplies(user_price, market_high)
        num == IF split THEN user_price ELSE 1
        den == IF split THEN market_high ELSE 1
        \* adjusted prices are kept as numerators over den
        U  == user_price * den
        X  == user_exit_price * den
        entry_high_adj == df.eHigh * num
        entry_low_adj  == df.eLow * num
        usePre == df.intra = "pre"
        range_low_adj == IF usePre THEN df.iLow * num ELSE entry_low_adj
        day_range == IF usePre THEN df.iHigh * num - df.iLow * num
                     ELSE entry_high_adj - entry_low_adj
        fomo_score_base ==
            Clamp01(IF day_range > 0 THEN Fx(U - range_low_adj, day_range) ELSE 500)
        volume_weight_entry == VolumeWeightAt(df.eHist, df.eVol, df.eAvg)
        fomo_score == ContextualFomo(fomo_score_base, volume_weight_entry)
        exit_high_adj == df.xHigh * num
        exit_low_adj  == df.xLow * num
        exit_range == exit_high_adj - exit_low_adj
        panic_score_base ==
            Clamp01(IF exit_range > 0 THEN Fx(X - exit_low_adj, exit_range) ELSE 500)
        volume_weight_exit == VolumeWeightAt(df.xHist, df.xVol, df.xAvg)
        panic_score == ContextualPanic(panic_score_base, volume_weight_exit)
        \* calculate_mae_mfe_intraday / _daily over the holding window
        mae == IF U = 0 THEN 0 ELSE Fx(df.hLow * num - U, U)
        mfe == IF U = 0 THEN 0 ELSE Fx(df.hHigh * num - U, U)
        \* max_potential = user_price * mfe, realized = exit - entry
        max_potential == df.hHigh * num - U
        realized == X - U
        efficiency == IF max_potential > 0 THEN Max(0, Fx(realized, max_potential))
                      ELSE 0
        regret == IF df.post
                  THEN Max(0, Fx((df.postMax * num - X) * row.qty, den))
                  ELSE 0
    IN  [fomo_score |-> fomo_score, panic_score |-> panic_score,
         fomo_score_base |-> fomo_score_base, panic_score_base |-> panic_score_base,
         volume_weight_entry |-> volume_weight_entry,
         volume_weight_exit |-> volume_weight_exit,
         mae |-> mae, mfe |-> mfe, efficiency |-> efficiency, regret |-> regret,
         entry_day_high |-> Fx(entry_high_adj, den),
         entry_day_low |-> Fx(entry_low_adj, den),
         exit_day_high |-> Fx(exit_high_adj, den),
         exit_day_low |-> Fx(exit_low_adj, den),
         exc |-> FALSE]

\* try: ... except Exception: return the sentinel defaults
calculate_metrics(row, df) ==
    LET r == calculate_metrics_try(row, df)
    IN  IF r.exc THEN SentinelMetrics ELSE r

\* try body of detect_market_regime over the benchmark bars of the trade date
detect_market_regime_try(spy) ==
    IF spy.st = "raise" THEN "RAISE"
    ELSE IF spy.st = "empty" THEN "UNKNOWN"
    ELSE IF spy.has5
         THEN (IF spy.close > spy.ma20 /\ spy.chg > 20 THEN "BULL"
               ELSE IF spy.close < spy.ma20 /\ spy.chg < -20 THEN "BEAR"
               ELSE "SIDEWAYS")
    ELSE IF 100 * spy.close > 102 * spy.ma20 THEN "BULL"
    ELSE IF 100 * spy.close < 98 * spy.ma20 THEN "BEAR"
    ELSE "SIDEWAYS"

\* the function without its outer except: an error of the download escapes
detect_market_regime_NoExcept(spy) == detect_market_regime_try(spy)

\* try: ... except Exception as e: return "UNKNOWN"
detect_market_regime(spy) ==
    LET r == detect_market_regime_try(spy)
    IN  IF r = "RAISE" THEN "UNKNOWN" ELSE r


-----------------------------------------------------------------------------
(* analysis.py: helpers of analyze_trades *)

\* commission 0.1 % and slippage 0.05 %, each charged twice, in thousandths
calculate_trading_cost(entry_price, exit_price, qty) ==
    Abs(entry_price * qty) * 3

\* timedelta.days of (d2 - d1), hours to whole days rounding down
DurationDays(d1, d2) == Max(0, (d2 - d1) \div 24)

\* one iteration of the per-row loop (lines 278-340)
EnrichRow(row) ==
    LET market_df == row.md
        raw == IF market_df.found THEN calculate_metrics(row, market_df)
               ELSE SentinelMetrics
        trading_cost == calculate_trading_cost(row.entry_price, row.exit_price, row.qty)
        pnl_gross == (row.exit_price - row.entry_price) * row.qty * 1000
        ret_pct == IF row.entry_price # 0
                   THEN Fx(row.exit_price - row.entry_price, row.entry_price)
                   ELSE 0
    IN  [ticker |-> row.ticker,
         entry_dt |-> row.entry, exit_dt |-> row.exit,
         entry_price |-> row.entry_price, exit_price |-> row.exit_price,
         qty |-> row.qty,
         pnl |-> pnl_gross - trading_cost,
         return_pct |-> ret_pct,
         duration_days |-> DurationDays(row.entry, row.exit),
         market_regime |-> detect_market_regime(row.spy),
         is_revenge |-> FALSE,
         fomo_score |-> raw.fomo_score, panic_score |-> raw.panic_score,
         fomo_score_base |-> raw.fomo_score_base,
         panic_score_base |-> raw.panic_score_base,
         volume_weight_entry |-> raw.volume_weight_entry,
         volume_weight_exit |-> raw.volume_weight_exit,
         mae |-> raw.mae, mfe |-> raw.mfe,
         efficiency |-> raw.efficiency, regret |-> raw.regret,
         entry_day_high |-> raw.entry_day_high, entry_day_low |-> raw.entry_day_low,
         exit_day_high |-> raw.exit_day_high, exit_day_low |-> raw.exit_day_low,
         has_ctx |-> FALSE, base_score |-> 0, volume_weight |-> 0,
         regime_weight |-> 0, contextual_score |-> 0,
         \* an exception that escaped its callee escapes the loop too
         exc |-> (market_df.found /\ raw.exc) \/ detect_market_regime(row.spy) = "RAISE"]

RemoveAt(s, i) == SubSeq(s, 1, i - 1) \o SubSeq(s, i + 1, Len(s))

\* the frame left in upload order
SortOutcomes_Unsorted(s) == {s}

RECURSIVE SortOutcomes(_)
\* DataFrame.sort_values('entry_dt'): every ordering by ascending entry_dt; the
\* default quicksort leaves the relative order of equal keys unspecified
SortOutcomes(s) ==
    IF s = <<>> THEN {<<>>}
    ELSE UNION { { <<s[i]>> \o t : t \in SortOutcomes(RemoveAt(s, i)) } :
                 i \in { k \in 1..Len(s) :
                            \A j \in 1..Len(s) : s[k].entry_dt <= s[j].entry_dt } }

\* the revenge scan without the test of the earlier trade's pnl
IsRevengeAt_AnyPnl(df, i) ==
    \E j \in 1..(i - 1) :
        /\ df[j].ticker = df[i].ticker
        /\ 0 <= df[i].entry_dt - df[j].exit_dt
        /\ df[i].entry_dt - df[j].exit_dt <= 24

\* the revenge scan with a window that ends before the 24th hour
IsRevengeAt_Under24(df, i) ==
    \E j \in 1..(i - 1) :
        /\ df[j].ticker = df[i].ticker
        /\ df[j].pnl < 0
        /\ 0 <= df[i].entry_dt - df[j].exit_dt
        /\ df[i].entry_dt - df[j].exit_dt < 24

\* inner loop of the revenge scan for row i (lines 350-360)
IsRevengeAt(df, i) ==
    \E j \in 1..(i - 1) :
        /\ df[j].ticker = df[i].ticker
        /\ df[j].pnl < 0
        /\ 0 <= df[i].entry_dt - df[j].exit_dt
        /\ df[i].entry_dt - df[j].exit_dt <= 24

RECURSIVE RevengeScan(_, _, _)
\* for i in range(1, len(trades_df)): flag row i and count it (lines 348-364)
RevengeScan(df, i, count) ==
    IF i > Len(df) THEN [df |-> df, count |-> count]
    ELSE IF IsRevengeAt(df, i)
         THEN RevengeScan([df EXCEPT ![i].is_revenge = TRUE], i + 1, count + 1)
         ELSE RevengeScan(df, i + 1, count)


-----------------------------------------------------------------------------
(* analysis.py: portfolio aggregator (lines 366-457) *)

Winners(df) == SelectSeq(df, LAMBDA t : t.pnl > 0)

Losers(df) == SelectSeq(df, LAMBDA t : t.pnl <= 0)

Pnls(df) == [i \in 1..Len(df) |-> df[i].pnl]

Durations(df) == [i \in 1..Len(df) |-> df[i].duration_days]

Returns(df) == [i \in 1..Len(df) |-> df[i].return_pct]

\* the fomo_score column with the sentinels left in
ValidFomo_All(df) == [i \in 1..Len(df) |-> df[i].fomo_score]

\* trades_df[trades_df['fomo_score'] != -1]['fomo_score']
ValidFomo(df) ==
    LET v == SelectSeq(df, LAMBDA t : t.fomo_score # -1000)
    IN  [i \in 1..Len(v) |-> v[i].fomo_score]

\* valid_fomo.mean() if not valid_fomo.empty else 0.0
FomoIndex(df) == Mean(ValidFomo(df))

\* one term of weighted_panic_sum: BULL scores under 0.3 are scaled by 0.67
PanicTerm(t) ==
    IF t.market_regime = "BULL" /\ t.panic_score < 300
    THEN Max(0, (t.panic_score * 67) \div 100)
    ELSE t.panic_score

\* weighted_panic_sum / valid_panic_count if valid_panic_count > 0 else 0.0
WeightedPanicAvg(df) ==
    LET v == SelectSeq(df, LAMBDA t : t.panic_score # -1000)
    IN  Mean([i \in 1..Len(v) |-> PanicTerm(v[i])])

\* one term of weighted_fomo_sum: BEAR x1.5, BULL x0.8 (lines 489-498)
FomoTerm(t) ==
    IF t.market_regime = "BEAR" THEN (t.fomo_score * 15) \div 10
    ELSE IF t.market_regime = "BULL" THEN (t.fomo_score * 8) \div 10
    ELSE t.fomo_score

WeightedFomoIndex(df) ==
    LET v == SelectSeq(df, LAMBDA t : t.fomo_score # -1000)
    IN  Mean([i \in 1..Len(v) |-> FomoTerm(v[i])])

\* lines 392-410
DispositionRatio(df) ==
    LET w == Winners(df)
        l == Losers(df)
        sumW == SumSeq(Durations(w))
        sumL == SumSeq(Durations(l))
        \* avg_loss_hold / avg_win_hold if avg_win_hold > 0 else 0.0
        base == IF sumW > 0 /\ Len(l) > 0 THEN Fx(sumL * Len(w), sumW * Len(l)) ELSE 0
        short == Len(SelectSeq(w, LAMBDA t : t.duration_days < 1 /\ t.return_pct < 20))
        afterShort == IF Len(w) > 0 /\ short > 0 /\ 10 * short > 3 * Len(w)
                      THEN (base * (1000 + Fx(short, Len(w)) \div 2)) \div 1000
                      ELSE base
        long == Len(SelectSeq(l, LAMBDA t : t.duration_days > 30))
    IN  IF Len(l) > 0 /\ long > 0 /\ 10 * long > 2 * Len(l)
        THEN (afterShort * (1000 + (Fx(long, Len(l)) * 3) \div 10)) \div 1000
        ELSE afterShort

RECURSIVE SumSqDev(_, _, _)
\* sum of (n * r - total)^2 over the returns r
SumSqDev(rs, n, total) ==
    IF rs = <<>> THEN 0
    ELSE (n * Head(rs) - total) * (n * Head(rs) - total) + SumSqDev(Tail(rs), n, total)

\* np.std(returns) if len(returns) > 1 else 0.0 (population deviation)
StdDev(rs) ==
    IF Len(rs) <= 1 THEN 0
    ELSE Sqrt(SumSqDev(rs, Len(rs), SumSeq(rs)) \div (Len(rs) * Len(rs) * Len(rs)))

\* (avg_return - 0.02/252) / std_dev if std_dev > 0, else 0.0
SharpeRatio(rs) ==
    LET std_dev == StdDev(rs)
    IN  IF std_dev > 0
        THEN Fx((SumSeq(rs) * 1000) \div Len(rs) - 79, std_dev * 1000)
        ELSE 0

\* avg_return / sqrt(mean(r^2 for the negative returns)) if that is > 0, else 0.0
SortinoRatio(rs) ==
    LET down == SelectSeq(rs, LAMBDA r : r < 0)
        sq == [i \in 1..Len(down) |-> down[i] * down[i]]
        downside_dev == IF down = <<>> THEN 0 ELSE Sqrt(SumSeq(sq) \div Len(sq))
    IN  IF downside_dev > 0 THEN Fx(Mean(rs), downside_dev) ELSE 0

\* the column itself, nothing carried from row to row
CumSum_NoCarry(s, acc) == s

RECURSIVE CumSum(_, _)
\* Series.cumsum()
CumSum(s, acc) ==
    IF s = <<>> THEN <<>> ELSE <<acc + Head(s)>> \o CumSum(Tail(s), acc + Head(s))

RECURSIVE MaxDD(_, _, _)
\* the peak / drawdown loop (lines 438-446), as a fraction in thousandths
MaxDD(cum, peak, max_dd) ==
    IF cum = <<>> THEN max_dd
    ELSE LET pnl == Head(cum)
             pk == IF pnl > peak THEN pnl ELSE peak
             drawdown == IF pk > 0 THEN Fx(pk - pnl, pk) ELSE 0
         IN  MaxDD(Tail(cum), pk, Max(max_dd, drawdown))

MaxDrawdown(df) ==
    IF Len(df) = 0 THEN 0
    ELSE LET cum == CumSum(Pnls(df), 0) IN MaxDD(cum, cum[1], 0) * 100

\* the aggregates of lines 366-457 as one record
Aggregate(df) ==
    LET total_trades == Len(df)
        w == Winners(df)
        l == Losers(df)
        sumW == SumSeq(Pnls(w))
        sumL == SumSeq(Pnls(l))
    IN  [total_trades |-> total_trades,
         win_rate |-> IF total_trades > 0 THEN Fx(Len(w), total_trades) ELSE 0,
         profit_factor |-> IF Abs(sumL) > 0 THEN Fx(sumW, Abs(sumL)) ELSE 0,
         fomo_index |-> FomoIndex(df),
         panic_index |-> 1000 - WeightedPanicAvg(df),
         disposition_ratio |-> DispositionRatio(df),
         avg_return |-> Mean(Returns(df)),
         sharpe_ratio |-> SharpeRatio(Returns(df)),
         sortino_ratio |-> SortinoRatio(Returns(df)),
         max_drawdown |-> MaxDrawdown(df),
         \* alpha = avg_return until calculate_beta_and_jensens_alpha is valid
         alpha |-> Mean(Returns(df))]

-----------------------------------------------------------------------------
(* analysis.py: the benchmark index (lines 36-229) *)

\* what a download of the benchmark index can do
BenchOutcomes == {"ok", "empty", "raise"}

\* the benchmark has a bar on every business day; day 0 is a Monday
BusinessDay(day) == day % 7 < 5

\* the close of the benchmark on a business day: a three-day wave around 102
SpyClose(day) == 100 + 2 * (day % 3)

\* the bar before the bar of a business day
PrevBar(day) == IF day % 7 = 0 THEN day - 3 ELSE day - 1

\* index.get_indexer([day], method='nearest') for a day without a bar: Saturday
\* goes to Friday, Sunday to Monday
NearestBusinessDay(day) ==
    IF BusinessDay(day) THEN day ELSE IF day % 7 = 5 THEN day - 1 ELSE day + 1

\* pd.bdate_range(entry_dt, exit_dt) of a trade, as a list of days
TradeDays(t) ==
    LET first == t.entry_dt \div 24
        last == t.exit_dt \div 24
    IN  SelectSeq([i \in 1..(last - first + 1) |-> first + i - 1], BusinessDay)

\* the benchmark's return of a business day against the bar before, thousandths
MarketReturn(day) == Fx(SpyClose(day) - SpyClose(PrevBar(day)), SpyClose(PrevBar(day)))

RECURSIVE ReturnPairs(_)
\* portfolio_returns and market_returns (lines 165-190): a trade's return spread
\* evenly over its business days, paired with the benchmark's return of each
ReturnPairs(df) ==
    IF df = <<>> THEN <<>>
    ELSE LET t == Head(df)
             days == TradeDays(t)
         IN  [i \in 1..Len(days) |->
                 [p |-> t.return_pct \div Len(days), m |-> MarketReturn(days[i])]]
             \o ReturnPairs(Tail(df))

\* entry_dt.min() and exit_dt.max() of a frame, in hours
MinEntry(df) == CHOOSE h \in { df[i].entry_dt : i \in 1..Len(df) } :
                    \A j \in 1..Len(df) : h <= df[j].entry_dt

MaxExit(df) == CHOOSE h \in { df[i].exit_dt : i \in 1..Len(df) } :
                   \A j \in 1..Len(df) : h >= df[j].exit_dt

\* the download of lines 158-160 is reached with 20 trades spanning 60 days
AlphaDownloads(df) ==
    IF Len(df) < 20 THEN {"none"}
    ELSE IF (MaxExit(df) - MinEntry(df)) \div 24 < 60 THEN {"none"}
    ELSE BenchOutcomes

\* calculate_beta_and_jensens_alpha for the outcome of its download: beta and
\* the annualized alpha in thousandths, and is_valid
calculate_beta_and_jensens_alpha(df, bench) ==
    LET invalid == [beta |-> 1000, jensens_alpha |-> 0, is_valid |-> FALSE]
        pairs == ReturnPairs(df)
        n == Len(pairs)
        ps == [i \in 1..n |-> pairs[i].p]
        ms == [i \in 1..n |-> pairs[i].m]
        sxy == SumSeq([i \in 1..n |-> (ps[i] - Mean(ps)) * (ms[i] - Mean(ms))])
        sxx == SumSeq([i \in 1..n |-> (ms[i] - Mean(ms)) * (ms[i] - Mean(ms))])
        \* np.cov divides by n - 1, np.var by n
        beta == (((sxy * 1000) \div sxx) * n) \div (n - 1)
        \* means in millionths; the daily risk-free rate 0.02 / 252 is 79
        portfolio_avg_return == (SumSeq(ps) * 1000) \div n
        market_avg_return == (SumSeq(ms) * 1000) \div n
        expected_return == 79 + (beta * (market_avg_return - 79)) \div 1000
        jensens_alpha == portfolio_avg_return - expected_return
    IN  IF bench # "ok" THEN invalid
        ELSE IF n < 20 THEN invalid
        ELSE IF sxx = 0 THEN invalid
        ELSE [beta |-> beta, jensens_alpha |-> (jensens_alpha * 252) \div 1000,
              is_valid |-> TRUE]

\* lines 449-457
AlphaOf(df, bench, avg_return) ==
    LET r == calculate_beta_and_jensens_alpha(df, bench)
    IN  IF r.is_valid THEN r.jensens_alpha ELSE avg_return


-----------------------------------------------------------------------------
(* analysis.py: Monte-Carlo luck estimator (lines 459-485) *)

\* one step of the process-wide generator (a 16-bit congruential generator stands
\* for numpy's Mersenne Twister: its output is a function of its state alone)
RngNext(s) == (s * 25173 + 13849) % 65536

\* np.random.choice(xs): the index drawn from generator state s
ChoiceIndex(s, n) == ((s \div 16) % n) + 1

\* the generator left in the state the process had reached
UnseededState(current) == current

\* np.random.seed(42): the generator state the simulation starts from
SeededState(current) == 42

\* the loop variables of one simulated run: generator state and running sim_total
SimState == [rng : 0..65535, sim_total : Int]

\* the loop variables of the trials loop: generator state and better_outcomes
TrialState == [rng : 0..65535, better_outcomes : Nat]

\* one iteration of `for _ in range(total_trades)`: a win/loss draw, then a
\* np.random.choice from the matching pool when that pool is not empty
SimTrade(st, total, nWin, win_pnls, loss_pnls) ==
    LET s1 == RngNext(st.rng)
        \* np.random.random() < sim_win_rate
        isWin == s1 * total < nWin * 65536
        pool == IF isWin THEN win_pnls ELSE loss_pnls
        s2 == IF pool # <<>> THEN RngNext(s1) ELSE s1
        delta == IF pool = <<>> THEN 0
                 ELSE IF isWin THEN pool[ChoiceIndex(s2, Len(pool))]
                 ELSE -pool[ChoiceIndex(s2, Len(pool))]
    IN  [rng |-> s2, sim_total |-> st.sim_total + delta]

\* for _ in range(total_trades): one simulated trade per iteration
SimTrades(s, total, nWin, win_pnls, loss_pnls) ==
    LET Step[st \in SimState] == SimTrade(st, total, nWin, win_pnls, loss_pnls)
        Loop[k \in 0..total] ==
            IF k = 0 THEN [rng |-> s, sim_total |-> 0] ELSE Step[Loop[k - 1]]
    IN  Loop[total]

\* for _ in range(simulations): count the trials that beat the realized total
SimTrials(s, trials, df, realized_total_pnl) ==
    LET w == Pnls(Winners(df))
        l == [i \in 1..Len(Losers(df)) |-> Abs(Losers(df)[i].pnl)]
        Finish[one \in SimState] ==
            [acc \in TrialState |->
                [rng |-> one.rng,
                 better_outcomes |-> acc.better_outcomes
                     + (IF one.sim_total > realized_total_pnl THEN 1 ELSE 0)]]
        Trial[acc \in TrialState] ==
            Finish[SimTrades(acc.rng, Len(df), Len(w), w, l)][acc]
        Loop[t \in 0..trials] ==
            IF t = 0 THEN [rng |-> s, better_outcomes |-> 0] ELSE Trial[Loop[t - 1]]
    IN  Loop[trials]

\* lines 459-485: luck_percentile (thousandths of a percent) and the generator
\* state left behind; the code runs 1000 trials, the model MaxTrials
LuckEstimate(df, current) ==
    IF Len(df) >= 5
    THEN LET r == SimTrials(SeededState(current), MaxTrials, df, SumSeq(Pnls(df)))
         IN  [luck_percentile |-> Fx(r.better_outcomes, MaxTrials) * 100,
              rng |-> r.rng, simulated |-> TRUE]
    ELSE [luck_percentile |-> 50000, rng |-> current, simulated |-> FALSE]

-----------------------------------------------------------------------------
(* analysis.py: truth score (lines 502-513) *)

\* the un-clamped base_score, in thousandths of a point
TruthBase(a, df, revenge) ==
    50000
    + a.win_rate * 20
    - WeightedFomoIndex(df) * 20
    - (1000 - a.panic_index) * 20
    - Max(0, (a.disposition_ratio - 1000) * 10)
    - revenge * 5000
    + (IF a.total_trades >= 5 THEN a.sharpe_ratio * 5 ELSE 5000)

\* the base score truncated to an integer without the clamp
TruthClamp_NoClamp(base_score) == base_score \div 1000

\* int(max(0, min(100, base_score)))
TruthClamp(base_score) == Max(0, Min(100000, base_score)) \div 1000

-----------------------------------------------------------------------------
(* analysis.py: bias attribution and priority ranking (lines 528-637) *)

\* |sum of the negative pnl| of a selection of trades
LossOf(sel) == Abs(SumSeq(Pnls(SelectSeq(sel, LAMBDA t : t.pnl < 0))))

HighFomo(df) == SelectSeq(df, LAMBDA t : t.fomo_score > 700 /\ t.fomo_score # -1000)

LowPanic(df) == SelectSeq(df, LAMBDA t : t.panic_score < 300 /\ t.panic_score # -1000)

RevengeTrades(df) == SelectSeq(df, LAMBDA t : t.is_revenge)

WinnersWithRegret(df) == SelectSeq(df, LAMBDA t : t.pnl > 0 /\ t.regret > 0)

BiasLossMapping(df) ==
    [fomo_loss |-> LossOf(HighFomo(df)),
     panic_loss |-> LossOf(LowPanic(df)),
     revenge_loss |-> LossOf(RevengeTrades(df)),
     disposition_loss |->
         SumSeq([i \in 1..Len(WinnersWithRegret(df)) |-> WinnersWithRegret(df)[i].regret])]

BiasRow(bias, loss, frequency, severity) ==
    [bias |-> bias, priority |-> 0, financial_loss |-> loss,
     frequency |-> frequency, severity |-> severity]

\* the quotient itself, without the cap at 1.0
Severity_Unclamped(value, full) == Fx(value, full)

\* min(1.0, value / full) of lines 578, 590, 601 and 612
Severity(value, full) == Min(1000, Fx(value, full))

\* the rows appended to priorities, in the order of lines 576-620
PriorityRows(df, a, mapping, revenge) ==
    LET total == Len(df)
        fomo_frequency == IF total > 0 THEN Fx(Len(HighFomo(df)), total) ELSE 0
        fomo_severity == IF a.fomo_index > 0 THEN Severity(a.fomo_index, 800) ELSE 0
        panic_frequency == IF total > 0 THEN Fx(Len(LowPanic(df)), total) ELSE 0
        panic_severity == IF a.panic_index < 1000
                          THEN Severity(1000 - a.panic_index, 800) ELSE 0
        revenge_frequency == IF total > 0 THEN Fx(revenge, total) ELSE 0
        revenge_severity == IF revenge > 0 THEN Severity(revenge, 3) ELSE 0
        disposition_frequency ==
            IF Len(Winners(df)) > 0
            THEN Fx(Len(WinnersWithRegret(df)), Len(Winners(df))) ELSE 0
        disposition_severity ==
            IF a.disposition_ratio > 1000
            THEN Severity(a.disposition_ratio - 1000, 1500) ELSE 0
    IN  (IF mapping.fomo_loss > 0 \/ fomo_frequency > 300
         THEN <<BiasRow("FOMO", mapping.fomo_loss, fomo_frequency, fomo_severity)>>
         ELSE <<>>)
        \o (IF mapping.panic_loss > 0 \/ panic_frequency > 300
            THEN <<BiasRow("Panic Sell", mapping.panic_loss, panic_frequency,
                           panic_severity)>>
            ELSE <<>>)
        \o (IF mapping.revenge_loss > 0 \/ revenge > 0
            THEN <<BiasRow("Revenge Trading", mapping.revenge_loss, revenge_frequency,
                           revenge_severity)>>
            ELSE <<>>)
        \o (IF mapping.disposition_loss > 0 \/ a.disposition_ratio > 1200
            THEN <<BiasRow("Disposition Effect", mapping.disposition_loss,
                           disposition_frequency, disposition_severity)>>
            ELSE <<>>)

\* the bonus alone, without the loss x 10 term
calculate_priority_score_NoLoss(p) ==
    IF p.financial_loss < 50000
    THEN (IF p.frequency > 500 /\ p.severity > 600
          THEN p.frequency * 2000 + p.severity * 1500
          ELSE p.frequency * 1000 + p.severity * 500)
    ELSE p.frequency * 2000 + p.severity * 1000

\* composite score in thousandths (financial_loss is money in thousandths,
\* frequency and severity are fractions in thousandths)
calculate_priority_score(p) ==
    p.financial_loss * 10
    + (IF p.financial_loss < 50000
       THEN (IF p.frequency > 500 /\ p.severity > 600
             THEN p.frequency * 2000 + p.severity * 1500
             ELSE p.frequency * 1000 + p.severity * 500)
       ELSE p.frequency * 2000 + p.severity * 1000)

\* the sort without reverse=True
PriorityBefore_Ascending(p, q) == calculate_priority_score(p) <= calculate_priority_score(q)

\* the sort key of priorities.sort(key=calculate_priority_score, reverse=True)
PriorityBefore(p, q) == calculate_priority_score(p) >= calculate_priority_score(q)

RECURSIVE InsertByScore(_, _)
\* p placed after every row that may stay before it: a stable descending sort
InsertByScore(sorted, p) ==
    IF sorted = <<>> THEN <<p>>
    ELSE IF PriorityBefore(Head(sorted), p)
         THEN <<Head(sorted)>> \o InsertByScore(Tail(sorted), p)
         ELSE <<p>> \o sorted

RECURSIVE SortByScore(_, _)
SortByScore(todo, sorted) ==
    IF todo = <<>> THEN sorted
    ELSE SortByScore(Tail(todo), InsertByScore(sorted, Head(todo)))

\* for i, p in enumerate(priorities): p.priority = i + 1
PriorityOf(i) == i + 1

\* lines 633-637
RankPriorities(priorities) ==
    LET sorted == SortByScore(priorities, <<>>)
    IN  [i \in 1..Len(sorted) |-> [sorted[i] EXCEPT !.priority = PriorityOf(i - 1)]]


-----------------------------------------------------------------------------
(* analysis.py: behavior shift (lines 639-698) *)

\* a float that may be NaN or +Infinity: k is "num", "nan" or "inf"
Num(v) == [k |-> "num", v |-> v]

NaN == [k |-> "nan", v |-> 0]

Inf == [k |-> "inf", v |-> 0]

\* safe_float(value): NaN and Infinity become 0.0
safe_float(x) == IF x.k = "num" THEN x.v ELSE 0

\* Series.mean() in millionths; NaN for an empty series
MeanOrNaN(xs) == IF xs = <<>> THEN NaN ELSE Num((SumSeq(xs) * 1000) \div Len(xs))

\* losers' mean holding days over winners' (numpy division), in millionths
HoldRatio(df) ==
    LET w == Winners(df)
        l == Losers(df)
        sumW == SumSeq(Durations(w))
        sumL == SumSeq(Durations(l))
    IN  IF w = <<>> \/ l = <<>> THEN Num(0)
        ELSE IF sumW = 0 THEN (IF sumL = 0 THEN NaN ELSE Inf)
        ELSE Num(Ratio10(sumL * Len(w), sumW * Len(l), 6))

\* trend of calc_shift for a change in thousandths of a percent
TrendOf(bias_name, change) ==
    LET below(c) == change.k = "num" /\ change.v < -c
        above(c) == change.k = "inf" \/ (change.k = "num" /\ change.v > c)
    IN  IF bias_name = "Panic Sell"
        THEN (IF above(5000) THEN "IMPROVING"
              ELSE IF below(5000) THEN "WORSENING" ELSE "STABLE")
        ELSE IF bias_name = "Disposition Effect"
        THEN (IF below(10000) THEN "IMPROVING"
              ELSE IF above(10000) THEN "WORSENING" ELSE "STABLE")
        ELSE (IF below(5000) THEN "IMPROVING"
              ELSE IF above(5000) THEN "WORSENING" ELSE "STABLE")

\* the shifts calc_shift appends: none unless baseline > 0
calc_shift(recent, baseline, bias_name) ==
    IF baseline.k = "nan" \/ (baseline.k = "num" /\ baseline.v <= 0) THEN <<>>
    ELSE LET change ==
                 IF baseline.k = "inf" \/ recent.k = "nan" THEN NaN
                 ELSE IF recent.k = "inf" THEN Inf
                 ELSE Num(Ratio10(recent.v - baseline.v, baseline.v, 5))
         IN  <<[bias |-> bias_name,
                recent_value |-> safe_float(recent),
                baseline_value |-> safe_float(baseline),
                change_percent |-> safe_float(change),
                trend |-> TrendOf(bias_name, change)]>>

RecentTrades(df) == SubSeq(df, Max(1, Len(df) - 2), Len(df))

BaselineTrades(df) == SubSeq(df, 1, Max(1, Len(df) - 3))

\* revenge rate of a window, in millionths
RevengeRate(win) ==
    IF Len(win) > 0 THEN (Len(RevengeTrades(win)) * 1000000) \div Len(win) ELSE 0

ValidPanic(df) ==
    LET v == SelectSeq(df, LAMBDA t : t.panic_score # -1000)
    IN  [i \in 1..Len(v) |-> v[i].panic_score]

\* the list shifts of lines 643-696
BehaviorShifts(df) ==
    LET recent == RecentTrades(df)
        baseline == BaselineTrades(df)
        base_rev == RevengeRate(baseline)
    IN  calc_shift(MeanOrNaN(ValidFomo(recent)), MeanOrNaN(ValidFomo(baseline)), "FOMO")
        \o calc_shift(MeanOrNaN(ValidPanic(recent)), MeanOrNaN(ValidPanic(baseline)),
                      "Panic Sell")
        \o calc_shift(Num(RevengeRate(recent)), Num(base_rev + 100), "Revenge Trading")
        \o calc_shift(HoldRatio(recent), HoldRatio(baseline), "Disposition Effect")

-----------------------------------------------------------------------------
(* analysis.py: equity curve (lines 700-762) *)

\* one EquityCurvePoint per row of trades_df_sorted; the decomposition columns
\* are read with row.get(...) from the frame as it is at this point
EquityPoints(sorted, bench_ok) ==
    LET cum == CumSum(Pnls(sorted), 0)
    IN  [i \in 1..Len(sorted) |->
            [date |-> sorted[i].entry_dt,
             cumulative_pnl |-> cum[i],
             has_fomo |-> sorted[i].fomo_score # -1000,
             fomo_score |-> sorted[i].fomo_score,
             has_panic |-> sorted[i].panic_score # -1000,
             panic_score |-> sorted[i].panic_score,
             is_revenge |-> sorted[i].is_revenge,
             ticker |-> sorted[i].ticker,
             pnl |-> sorted[i].pnl,
             has_ctx |-> sorted[i].has_ctx,
             base_score |-> sorted[i].base_score,
             volume_weight |-> sorted[i].volume_weight,
             regime_weight |-> sorted[i].regime_weight,
             contextual_score |-> sorted[i].contextual_score,
             market_regime |-> sorted[i].market_regime,
             has_benchmark |-> bench_ok]]

-----------------------------------------------------------------------------
(* analysis.py: contextual decomposition (lines 231-244, 780-823) *)

\* the weight with the panic test written without its sentinel guard
calculate_regime_weight_NoSentinel(market_regime, fomo_score, panic_score) ==
    LET is_fomo_buy == fomo_score # -1000 /\ fomo_score >= 700
        is_panic_sell == panic_score <= 300
    IN  IF market_regime = "BULL"
        THEN (IF is_panic_sell THEN 15 ELSE IF is_fomo_buy THEN 8 ELSE 10)
        ELSE IF market_regime = "BEAR"
        THEN (IF is_fomo_buy THEN 15 ELSE 10)
        ELSE 10

calculate_regime_weight(market_regime, fomo_score, panic_score) ==
    LET is_fomo_buy == fomo_score # -1000 /\ fomo_score >= 700
        is_panic_sell == panic_score # -1000 /\ panic_score <= 300
    IN  IF market_regime = "BULL"
        THEN (IF is_panic_sell THEN 15 ELSE IF is_fomo_buy THEN 8 ELSE 10)
        ELSE IF market_regime = "BEAR"
        THEN (IF is_fomo_buy THEN 15 ELSE 10)
        ELSE 10

\* the test with the thresholds themselves left out
should_decompose_Strict(t) ==
    \/ (t.fomo_score # -1000 /\ t.fomo_score > 700)
    \/ (t.panic_score # -1000 /\ t.panic_score < 300)
    \/ t.is_revenge

should_decompose(t) ==
    \/ (t.fomo_score # -1000 /\ t.fomo_score >= 700)
    \/ (t.panic_score # -1000 /\ t.panic_score <= 300)
    \/ t.is_revenge

\* one iteration of the loop of lines 780-823
DecomposeRow(t) ==
    IF should_decompose(t)
    THEN LET raw == 100000
                    - (IF t.fomo_score # -1000 THEN t.fomo_score_base * 20 ELSE 0)
                    - (IF t.panic_score # -1000 THEN (1000 - t.panic_score_base) * 20
                       ELSE 0)
             base_score == Max(0, Min(100000, raw))
             volume_weight == Max(t.volume_weight_entry, t.volume_weight_exit)
             regime_weight ==
                 calculate_regime_weight(t.market_regime, t.fomo_score, t.panic_score)
             contextual_score == (base_score * volume_weight * regime_weight) \div 100
         IN  [t EXCEPT !.has_ctx = TRUE,
                       !.base_score = base_score,
                       !.volume_weight = volume_weight,
                       !.regime_weight = regime_weight,
                       !.contextual_score = Max(0, Min(150000, contextual_score))]
    ELSE [t EXCEPT !.has_ctx = FALSE, !.base_score = 0, !.volume_weight = 0,
                   !.regime_weight = 0, !.contextual_score = 0]

DecomposeAll(df) == [i \in 1..Len(df) |-> DecomposeRow(df[i])]


-----------------------------------------------------------------------------
(* patterns.py: deep patterns; of the pattern kinds only CAUSAL_CHAIN is listed *)

RECURSIVE InsertAsc(_, _)
InsertAsc(sorted, x) ==
    IF sorted = <<>> THEN <<x>>
    ELSE IF Head(sorted) <= x THEN <<Head(sorted)>> \o InsertAsc(Tail(sorted), x)
    ELSE <<x>> \o sorted

RECURSIVE SortAsc(_, _)
SortAsc(todo, sorted) ==
    IF todo = <<>> THEN sorted ELSE SortAsc(Tail(todo), InsertAsc(sorted, Head(todo)))

\* pnl < trades_df['pnl'].quantile(0.2) (linear interpolation), compared exactly
BelowQuantile20(pnl, df) ==
    LET sorted == SortAsc(Pnls(df), <<>>)
        n == Len(sorted)
        lo == (n - 1) \div 5 + 1
        r == (n - 1) % 5
        hi == Min(n, lo + 1)
    IN  5 * pnl < 5 * sorted[lo] + r * (sorted[hi] - sorted[lo])

\* the candidate rows of generate_causal_chain (lines 210-213)
ChainCandidates(df) ==
    SelectSeq(df, LAMBDA t : (t.fomo_score > 700 \/ BelowQuantile20(t.pnl, df))
                             /\ t.fomo_score # -1000)

\* candidates.sort_values('pnl').iloc[0]: the row of least pnl, any one on a tie
WorstCandidates(df) ==
    LET c == ChainCandidates(df)
    IN  { c[i] : i \in { k \in 1..Len(c) : \A j \in 1..Len(c) : c[k].pnl <= c[j].pnl } }

\* the events detected on the candidate, in the order they are appended
ChainEvents(c) ==
    (IF c.mae < -20 THEN <<[type |-> "HIGH_MAE", timestamp |-> c.entry_dt]>> ELSE <<>>)
    \o (IF c.duration_days > 30 /\ c.pnl < 0
        THEN <<[type |-> "LONG_HOLD", timestamp |-> c.exit_dt]>> ELSE <<>>)
    \o (IF c.market_regime = "BEAR"
        THEN <<[type |-> "MARKET_DROP", timestamp |-> c.entry_dt]>> ELSE <<>>)
    \o (IF c.panic_score < 300 /\ c.panic_score # -1000
        THEN <<[type |-> "PANIC_SELL", timestamp |-> c.exit_dt]>> ELSE <<>>)

RECURSIVE InsertEvent(_, _)
InsertEvent(sorted, e) ==
    IF sorted = <<>> THEN <<e>>
    ELSE IF Head(sorted).timestamp <= e.timestamp
         THEN <<Head(sorted)>> \o InsertEvent(Tail(sorted), e)
         ELSE <<e>> \o sorted

\* the events left in the order they were appended
SortEvents_Unsorted(todo, sorted) == todo

RECURSIVE SortEvents(_, _)
\* sorted(events, key=lambda x: x['timestamp'])
SortEvents(todo, sorted) ==
    IF todo = <<>> THEN sorted
    ELSE SortEvents(Tail(todo), InsertEvent(sorted, Head(todo)))

\* what the narrative service can do: no API key, an answer, or an error
NarrativeOutcomes == {"nokey", "ok", "fail"}

\* the try body of the narrative request; "RAISE" when the service call raises
NarrativeTry(llm) == IF llm = "fail" THEN "RAISE" ELSE "llm"

\* the narrative request without its except branch
NarrativeSource_NoExcept(llm) == IF llm = "nokey" THEN "local" ELSE NarrativeTry(llm)

\* lines 268-343: the description comes from the service, or is built locally
\* when there is no key or the call raises
NarrativeSource(llm) ==
    IF llm = "nokey" THEN "local"
    ELSE IF NarrativeTry(llm) = "RAISE" THEN "local" ELSE NarrativeTry(llm)

\* generate_causal_chain for the chosen candidate: <<>> stands for None
generate_causal_chain(c, llm) ==
    LET events_sorted == SortEvents(ChainEvents(c), <<>>)
        source == NarrativeSource(llm)
    IN  IF Len(events_sorted) < 3 THEN <<>>
        ELSE <<[type |-> "CAUSAL_CHAIN",
                events |-> events_sorted,
                ticker |-> c.ticker,
                source |-> source,
                significance |-> IF source = "llm" /\ Len(events_sorted) >= 4
                                 THEN "HIGH" ELSE "MEDIUM"]>>

\* hour-of-day values: minutes and seconds are always 0 at this granularity
has_time_info(df) == Cardinality({ df[i].entry_dt % 24 : i \in 1..Len(df) }) >= 3

\* lines 13-20: from three trades on, extract_deep_patterns assigns entry_dt again
\* (to the same values) and three new columns in the frame it was handed, which
\* is the caller's frame
DeepPatternColumns(df) ==
    IF Len(df) < 3 THEN df
    ELSE [i \in 1..Len(df) |->
            [entry_hour |-> df[i].entry_dt % 24, entry_minute |-> 0,
             entry_second |-> 0] @@ df[i]]

\* extract_deep_patterns: the pattern lists it can return
extract_deep_patterns(df, llm) ==
    IF Len(df) < 3 THEN {<<>>}
    ELSE IF has_time_info(df) /\ Len(df) >= 4 /\ ChainCandidates(df) # <<>>
    THEN { generate_causal_chain(c, llm) : c \in WorstCandidates(df) }
    ELSE {<<>>}


-----------------------------------------------------------------------------
(* Uploads and their market context *)

\* a daily bar frame as calculate_metrics reads it: found = the store returned
\* bars; raises = a lookup inside the try block raises; e* the entry day, x* the
\* exit day, *Hist = at least 20 bars up to the day, *Avg the 20-bar mean volume;
\* intra, i* the 5-minute bars up to the entry time; h* the holding window;
\* post, postMax the three bars after the exit
OkFrame ==
    [found |-> TRUE, raises |-> FALSE,
     eHigh |-> 5, eLow |-> 3, eHist |-> TRUE, eVol |-> 1, eAvg |-> 1,
     xHigh |-> 5, xLow |-> 3, xHist |-> TRUE, xVol |-> 1, xAvg |-> 1,
     intra |-> "none", iHigh |-> 0, iLow |-> 0,
     hLow |-> 3, hHigh |-> 5, post |-> TRUE, postMax |-> 6]

NoData == [OkFrame EXCEPT !.found = FALSE]

BadFrame == [OkFrame EXCEPT !.raises = TRUE]

\* entry at the day's high on a volume spike
HotFrame == [OkFrame EXCEPT !.eHigh = 4, !.eLow = 2, !.eVol = 3]

\* benchmark bars around a trade date
SpyBull == [st |-> "ok", has5 |-> TRUE, close |-> 105, ma20 |-> 100, chg |-> 30]

SpyBear == [st |-> "ok", has5 |-> TRUE, close |-> 95, ma20 |-> 100, chg |-> -30]

SpySide == [st |-> "ok", has5 |-> TRUE, close |-> 100, ma20 |-> 100, chg |-> 0]

SpyEmpty == [SpySide EXCEPT !.st = "empty"]

SpyRaise == [SpySide EXCEPT !.st = "raise"]

Row(ticker, entry, exit, entry_price, exit_price, md, spy) ==
    [ticker |-> ticker, entry |-> entry, exit |-> exit,
     entry_price |-> entry_price, exit_price |-> exit_price, qty |-> 1,
     md |-> md, spy |-> spy]

\* the key of unique_ticker_ranges (lines 263-275)
KeyOf(row) == <<row.ticker, row.entry \div 24, row.exit \div 24>>

\* one fetch per key: rows of one key share their frame
KeyConsistent(batch) ==
    \A i, j \in 1..Len(batch) : KeyOf(batch[i]) = KeyOf(batch[j]) => batch[i].md = batch[j].md

BatchesOver(templates, n) ==
    { b \in UNION { [1..k -> templates] : k \in 1..n } : KeyConsistent(b) }

\* uploads of the default specification: same-ticker re-entries 0, 23, 24 and 25
\* hours after a loss, another ticker, a missing frame and a failing frame
Templates ==
    { Row("AAA", 0, 1, 4, 3, OkFrame, SpySide),
      Row("AAA", 0, 1, 4, 5, OkFrame, SpyBull),
      Row("AAA", 1, 2, 4, 3, OkFrame, SpyBear),
      Row("AAA", 25, 26, 4, 5, OkFrame, SpyEmpty),
      Row("AAA", 26, 27, 4, 3, OkFrame, SpySide),
      Row("BBB", 25, 26, 4, 3, NoData, SpyRaise),
      Row("AAA", 0, 27, 4, 5, BadFrame, SpySide),
      Row("BBB", 1, 2, 4, 5, HotFrame, SpyBear) }

Batches == BatchesOver(Templates, MaxTrades)

-----------------------------------------------------------------------------
(* analyze_trades as a pipeline *)

NoAgg ==
    [total_trades |-> 0, win_rate |-> 0, profit_factor |-> 0, fomo_index |-> 0,
     panic_index |-> 0, disposition_ratio |-> 0, avg_return |-> 0,
     sharpe_ratio |-> 0, sortino_ratio |-> 0, max_drawdown |-> 0, alpha |-> 0,
     luck_percentile |-> 50000, simulated |-> FALSE,
     weighted_fomo_index |-> 0, base_score |-> 0, truth_score |-> 0,
     has_baseline |-> FALSE, has_mapping |-> FALSE,
     bias_loss_mapping |-> [fomo_loss |-> 0, panic_loss |-> 0, revenge_loss |-> 0,
                            disposition_loss |-> 0],
     spy_alpha |-> "none", opportunity_cost |-> 0,
     spy_load_failed_opportunity |-> FALSE,
     has_priority |-> FALSE, bias_priority |-> <<>>,
     has_shift |-> FALSE, behavior_shift |-> <<>>,
     equity_curve |-> <<>>, benchmark_load_failed |-> FALSE]

\* one EnrichedTrade of final_trades (lines 825-854)
FinalTrade(row) ==
    [ticker |-> row.ticker, entry_date |-> row.entry_dt, exit_date |-> row.exit_dt,
     entry_price |-> row.entry_price, exit_price |-> row.exit_price, qty |-> row.qty,
     pnl |-> row.pnl, return_pct |-> row.return_pct,
     duration_days |-> row.duration_days, market_regime |-> row.market_regime,
     is_revenge |-> row.is_revenge,
     fomo_score |-> row.fomo_score, panic_score |-> row.panic_score,
     mae |-> row.mae, mfe |-> row.mfe, efficiency |-> row.efficiency,
     regret |-> row.regret,
     has_ctx |-> row.has_ctx, base_score |-> row.base_score,
     volume_weight |-> row.volume_weight, regime_weight |-> row.regime_weight,
     contextual_score |-> row.contextual_score]

\* metrics_obj (lines 764-778)
MetricsObj(a, count) ==
    [total_trades |-> a.total_trades, win_rate |-> a.win_rate,
     profit_factor |-> a.profit_factor, fomo_score |-> a.fomo_index,
     panic_score |-> a.panic_index, disposition_ratio |-> a.disposition_ratio,
     revenge_trading_count |-> count, truth_score |-> a.truth_score,
     sharpe_ratio |-> a.sharpe_ratio, sortino_ratio |-> a.sortino_ratio,
     alpha |-> a.alpha, luck_percentile |-> a.luck_percentile,
     max_drawdown |-> a.max_drawdown]

NoResponse ==
    [present |-> FALSE, trades |-> <<>>, metrics |-> MetricsObj(NoAgg, 0),
     is_low_sample |-> FALSE, has_baseline |-> FALSE,
     bias_loss_mapping |-> NoAgg.bias_loss_mapping,
     opportunity_cost |-> 0,
     has_priority |-> FALSE, bias_priority |-> <<>>,
     has_shift |-> FALSE, behavior_shift |-> <<>>, equity_curve |-> <<>>,
     deep_patterns |-> <<>>, benchmark_load_failed |-> FALSE]

InitWith(batches, starts) ==
    /\ rows \in batches
    /\ pc = "enrich"
    /\ enriched_trades = <<>>
    /\ trades_df = <<>>
    /\ revenge_count = 0
    /\ agg = NoAgg
    /\ response = NoResponse
    /\ rng \in starts
    /\ served = 0
    /\ luck_log = <<>>
    /\ printed = {}
    /\ call = <<>>
    /\ ret = <<>>
    /\ cache = <<>>
    /\ inflight = <<>>

Init == InitWith(Batches, {1})

\* lines 277-340: the per-row loop
Enrich ==
    /\ pc = "enrich"
    /\ enriched_trades' = [i \in 1..Len(rows) |-> EnrichRow(rows[i])]
    /\ pc' = IF \E i \in 1..Len(rows) : EnrichRow(rows[i]).exc THEN "raised" ELSE "sort"
    /\ UNCHANGED <<cache, inflight, call, ret,
                   rows, trades_df, revenge_count, agg, response, rng, served, luck_log, printed>>

\* lines 342-346
SortTrades ==
    /\ pc = "sort"
    /\ trades_df' \in SortOutcomes(enriched_trades)
    /\ pc' = "revenge"
    /\ UNCHANGED <<cache, inflight, call, ret,
                   rows, enriched_trades, revenge_count, agg, response, rng, served,
                   luck_log, printed>>

\* lines 348-364
DetectRevenge ==
    /\ pc = "revenge"
    /\ LET r == RevengeScan(trades_df, 2, 0)
       IN  /\ trades_df' = r.df
           /\ revenge_count' = r.count
    /\ pc' = "aggregate"
    /\ UNCHANGED <<cache, inflight, call, ret,
                   rows, enriched_trades, agg, response, rng, served, luck_log, printed>>

\* lines 366-457
AggregateStats ==
    /\ pc = "aggregate"
    /\ \E bench \in AlphaDownloads(trades_df) :
         LET a == Aggregate(trades_df)
         IN  agg' = [a EXCEPT !.alpha = AlphaOf(trades_df, bench, a.avg_return)]
                    @@ [NoAgg EXCEPT !.spy_alpha = bench]
    /\ pc' = "luck"
    /\ UNCHANGED <<cache, inflight, call, ret,
                   rows, enriched_trades, trades_df, revenge_count, response, rng,
                   served, luck_log, printed>>

\* lines 459-485
MonteCarlo ==
    /\ pc = "luck"
    /\ LET r == LuckEstimate(trades_df, rng)
       IN  /\ agg' = [agg EXCEPT !.luck_percentile = r.luck_percentile,
                                 !.simulated = r.simulated]
           /\ rng' = r.rng
    /\ pc' = "truth"
    /\ UNCHANGED <<cache, inflight, call, ret,
                   rows, enriched_trades, trades_df, revenge_count, response, served,
                   luck_log, printed>>

\* lines 487-513
TruthScore ==
    /\ pc = "truth"
    /\ LET base_score == TruthBase(agg, trades_df, revenge_count)
       IN  agg' = [agg EXCEPT !.weighted_fomo_index = WeightedFomoIndex(trades_df),
                              !.base_score = base_score,
                              !.truth_score = TruthClamp(base_score)]
    /\ pc' = "attribute"
    /\ UNCHANGED <<cache, inflight, call, ret,
                   rows, enriched_trades, trades_df, revenge_count, response, rng,
                   served, luck_log, printed>>

\* the biased losing trades of calculate_opportunity_cost (lines 42-54)
BiasedTrades(df) ==
    SelectSeq(df, LAMBDA t : t.pnl < 0 /\ ((t.fomo_score > 700 /\ t.fomo_score # -1000)
                                           \/ (t.panic_score < 300 /\ t.panic_score # -1000)
                                           \/ t.is_revenge))

\* the load-failed flag calculate_opportunity_cost returns for a benchmark outcome
OpportunityLoadFailed(df, bench) ==
    IF Len(df) = 0 \/ BiasedTrades(df) = <<>> THEN FALSE ELSE bench # "ok"

\* the benchmark's return between the bars nearest to a trade's entry and exit
SpyReturnDuring(t) ==
    LET entry_price_spy == SpyClose(NearestBusinessDay(t.entry_dt \div 24))
        exit_price_spy == SpyClose(NearestBusinessDay(t.exit_dt \div 24))
    IN  Fx(exit_price_spy - entry_price_spy, entry_price_spy)

\* opportunity_cost_with_savings of calculate_opportunity_cost (lines 74-127): what
\* the money of the biased trades would have made in the benchmark over what it
\* made, plus their trading cost; 0.0 on every early return
OpportunityCost(df, bench) ==
    LET biased == BiasedTrades(df)
        cost(t) == Abs(t.entry_price * t.qty) * (SpyReturnDuring(t) - t.return_pct)
                   + calculate_trading_cost(t.entry_price, t.exit_price, t.qty)
    IN  IF Len(df) = 0 \/ biased = <<>> \/ bench # "ok" THEN 0
        ELSE SumSeq([i \in 1..Len(biased) |-> cost(biased[i])])

\* personal_baseline is built only from three trades on (lines 515-516)
BaselinePresent(total_trades) == total_trades >= 3

\* lines 515-637: personal baseline, bias loss mapping, opportunity cost, priorities
Attribute ==
    /\ pc = "attribute"
    /\ \E bench \in BenchOutcomes :
         LET mapping == BiasLossMapping(trades_df)
             ranked == RankPriorities(PriorityRows(trades_df, agg, mapping, revenge_count))
         IN  agg' = [agg EXCEPT
                       !.has_baseline = BaselinePresent(agg.total_trades),
                       !.has_mapping = agg.total_trades > 0,
                       !.bias_loss_mapping = mapping,
                       !.opportunity_cost = OpportunityCost(trades_df, bench),
                       !.spy_load_failed_opportunity =
                            OpportunityLoadFailed(trades_df, bench),
                       !.has_priority = ranked # <<>>,
                       !.bias_priority = ranked]
    /\ pc' = "shift"
    /\ UNCHANGED <<cache, inflight, call, ret,
                   rows, enriched_trades, trades_df, revenge_count, response, rng,
                   served, luck_log, printed>>

\* behavior_shift is computed only from six trades on (lines 639-640)
ShiftComputed(total_trades) == total_trades >= 6

\* lines 639-698
DetectShift ==
    /\ pc = "shift"
    /\ LET shifts == IF ShiftComputed(agg.total_trades) THEN BehaviorShifts(trades_df)
                     ELSE <<>>
       IN  agg' = [agg EXCEPT !.has_shift = shifts # <<>>, !.behavior_shift = shifts]
    /\ pc' = "equity"
    /\ UNCHANGED <<cache, inflight, call, ret,
                   rows, enriched_trades, trades_df, revenge_count, response, rng,
                   served, luck_log, printed>>

\* lines 700-762
BuildEquityCurve ==
    /\ pc = "equity"
    /\ \E bench \in BenchOutcomes, trades_df_sorted \in SortOutcomes(trades_df) :
         agg' = [agg EXCEPT
                   !.equity_curve = EquityPoints(trades_df_sorted, bench = "ok"),
                   !.benchmark_load_failed = (bench # "ok")]
    /\ pc' = "decompose"
    /\ UNCHANGED <<cache, inflight, call, ret,
                   rows, enriched_trades, trades_df, revenge_count, response, rng,
                   served, luck_log, printed>>

\* lines 780-823
Decompose ==
    /\ pc = "decompose"
    /\ trades_df' = DecomposeAll(trades_df)
    /\ pc' = "respond"
    /\ UNCHANGED <<cache, inflight, call, ret,
                   rows, enriched_trades, revenge_count, agg, response, rng, served,
                   luck_log, printed>>

\* the low-sample flag with the fifth trade still counted as low
IsLowSample_UpTo5(total_trades) == total_trades <= 5

\* is_low_sample of the response (line 862)
IsLowSample(total_trades) == total_trades < 5

\* print(f"Causal Chain LLM error: {e}") in the except branch (patterns.py 334-335)
NarrativePrints(patterns, llm) ==
    IF patterns # <<>> /\ llm = "fail" THEN {"Causal Chain LLM error"} ELSE {}

\* lines 825-871: final trades, deep patterns and the response
Respond ==
    /\ pc = "respond"
    /\ \E llm \in NarrativeOutcomes :
         \E patterns \in extract_deep_patterns(trades_df, llm) :
           IF \E i \in 1..Len(patterns) : patterns[i].source = "RAISE"
           THEN /\ pc' = "raised"
                /\ UNCHANGED <<response, luck_log, printed>>
           ELSE /\ pc' = "done"
                /\ response' =
                     [present |-> TRUE,
                      trades |-> [i \in 1..Len(trades_df) |-> FinalTrade(trades_df[i])],
                      metrics |-> MetricsObj(agg, revenge_count),
                      is_low_sample |-> IsLowSample(agg.total_trades),
                      has_baseline |-> agg.has_baseline,
                      bias_loss_mapping |-> agg.bias_loss_mapping,
                      opportunity_cost |-> agg.opportunity_cost,
                      has_priority |-> agg.has_priority,
                      bias_priority |-> agg.bias_priority,
                      has_shift |-> agg.has_shift,
                      behavior_shift |-> agg.behavior_shift,
                      equity_curve |-> agg.equity_curve,
                      deep_patterns |-> patterns,
                      benchmark_load_failed |->
                          agg.benchmark_load_failed \/ agg.spy_load_failed_opportunity]
                /\ luck_log' = Append(luck_log, [rows |-> rows,
                                                   luck |-> agg.luck_percentile])
                /\ printed' = printed \cup NarrativePrints(patterns, llm)
    /\ trades_df' = DeepPatternColumns(trades_df)
    /\ UNCHANGED <<cache, inflight, call, ret,
                   rows, enriched_trades, revenge_count, agg, rng, served>>

Next ==
    \/ Enrich
    \/ SortTrades
    \/ DetectRevenge
    \/ AggregateStats
    \/ MonteCarlo
    \/ TruthScore
    \/ Attribute
    \/ DetectShift
    \/ BuildEquityCurve
    \/ Decompose
    \/ Respond

Spec == Init /\ [][Next]_vars


-----------------------------------------------------------------------------
(* Revenge detection *)

\* C2: in the response a trade is flagged is_revenge only if an earlier trade of
\* the entry-time order has the same ticker, a negative pnl and an exit between 0
\* and 24 hours before this trade's entry; the first trade is never flagged
C2_RevengeSound ==
    response.present =>
        /\ ~ response.trades[1].is_revenge
        /\ \A i \in 1..Len(response.trades) :
             response.trades[i].is_revenge =>
                \E j \in 1..(i - 1) :
                    /\ response.trades[j].ticker = response.trades[i].ticker
                    /\ response.trades[j].pnl < 0
                    /\ response.trades[i].entry_date - response.trades[j].exit_date
                          \in 0..24

\* a re-entry exactly 24 hours after a same-ticker loss is flagged in the response
C2_Witness ==
    /\ response.present
    /\ \E i \in 1..Len(response.trades) :
         /\ response.trades[i].is_revenge
         /\ \E j \in 1..(i - 1) :
              /\ response.trades[j].ticker = response.trades[i].ticker
              /\ response.trades[j].pnl < 0
              /\ response.trades[i].entry_date - response.trades[j].exit_date = 24

\* the trades of the response that have a qualifying earlier trade
QualifyingReentries(trades) ==
    { i \in 1..Len(trades) :
        \E j \in 1..(i - 1) :
            /\ trades[j].ticker = trades[i].ticker
            /\ trades[j].pnl < 0
            /\ trades[i].entry_date - trades[j].exit_date \in 0..24 }

\* C3: every trade with some earlier same-ticker losing trade that exited 0 to 24
\* hours before its entry is flagged is_revenge, and revenge_trading_count counts
\* each such trade once, however many qualifying earlier trades it has
C3_RevengeComplete ==
    response.present =>
        /\ \A i \in QualifyingReentries(response.trades) : response.trades[i].is_revenge
        /\ response.metrics.revenge_trading_count
              = Cardinality(QualifyingReentries(response.trades))

\* Scenario A with two qualifying earlier losses: three trades of one ticker, the
\* third enters within 24 hours of both earlier losing exits and is counted once
C3_Witness ==
    /\ response.present
    /\ Len(response.trades) = 3
    /\ response.metrics.revenge_trading_count = 1
    /\ response.trades[3].is_revenge
    /\ \A j \in 1..2 :
         /\ response.trades[j].ticker = response.trades[3].ticker
         /\ response.trades[j].pnl < 0
         /\ response.trades[3].entry_date - response.trades[j].exit_date \in 0..24
    /\ ~ response.trades[2].is_revenge

-----------------------------------------------------------------------------
(* Score ranges *)

\* daily bars with every high/low pair up to MaxPrice on the entry and exit day,
\* normal, elevated and extreme volume, with and without bars before the entry
\* time, plus a missing frame and a frame whose lookup raises
MetricFrames ==
    { [OkFrame EXCEPT !.eHigh = h, !.eLow = l, !.xHigh = h, !.xLow = l,
                      !.eVol = v, !.xVol = v, !.eHist = (v > 0), !.xHist = (v > 0),
                      !.intra = k, !.iHigh = h, !.iLow = Min(h, l + 1),
                      !.hLow = l, !.hHigh = h, !.postMax = h] :
        h \in 1..MaxPrice, l \in 1..MaxPrice, v \in {0, 1, 3, 5}, k \in {"none", "pre"} }

MetricBatches ==
    { <<Row("AAA", 0, 1, p, q, f, SpySide)>> :
        p \in 1..MaxPrice, q \in 1..MaxPrice,
        f \in { m \in MetricFrames : m.eLow <= m.eHigh } \cup {NoData, BadFrame} }

InitMetrics == InitWith(MetricBatches, {1})

SpecMetrics == InitMetrics /\ [][Next]_vars

InScoreRange(x) == x = -1000 \/ (0 <= x /\ x <= 1000)

\* C1: every trade of the response has fomo_score and panic_score equal to the
\* sentinel -1.0 or within [0.0, 1.0], and so have the un-weighted base scores
\* of every enriched trade
C1_ScoresInRange ==
    /\ \A i \in 1..Len(enriched_trades) :
         /\ InScoreRange(enriched_trades[i].fomo_score)
         /\ InScoreRange(enriched_trades[i].panic_score)
         /\ InScoreRange(enriched_trades[i].fomo_score_base)
         /\ InScoreRange(enriched_trades[i].panic_score_base)
    /\ \A i \in 1..Len(response.trades) :
         /\ InScoreRange(response.trades[i].fomo_score)
         /\ InScoreRange(response.trades[i].panic_score)

\* a response trade bought above the split-adjusted range on elevated volume:
\* the volume-weighted fomo score is capped at 1.0 and the panic score is a
\* proper fraction
C1_Witness ==
    /\ response.present
    /\ response.trades[1].fomo_score = 1000
    /\ trades_df[1].fomo_score_base \in 701..999
    /\ trades_df[1].volume_weight_entry > 10
    /\ response.trades[1].panic_score \in 1..999

-----------------------------------------------------------------------------
(* Truth score *)

MaxTruthTrades == 5

\* two winners without market data (sentinel scores, returns 0.25 and 0.2, held a
\* day), a loser bought at the day's high on a volume spike in a bear market that
\* is re-entered within the hour, and a loser held for forty days
TruthTemplates ==
    { Row("AAA", 0, 24, 4, 5, NoData, SpySide),
      Row("AAA", 1, 25, 5, 6, NoData, SpySide),
      Row("BBB", 2, 2, 5, 4, [HotFrame EXCEPT !.eHigh = 5, !.eLow = 1, !.xHigh = 4,
                                              !.xLow = 2], SpyBear),
      Row("CCC", 3, 963, 4, 3, OkFrame, SpySide) }

InitTruth == InitWith(BatchesOver(TruthTemplates, MaxTruthTrades), {1})

SpecTruth == InitTruth /\ [][Next]_vars

\* C4: for any non-empty trade set the truth_score of the response is an integer
\* between 0 and 100, whatever the sentinel scores, the revenge count, the
\* disposition ratio and the sharpe ratio
C4_TruthScoreBounded ==
    /\ (pc \notin {"enrich", "sort", "revenge", "aggregate", "luck", "truth"}
           => agg.truth_score \in 0..100)
    /\ (response.present => response.metrics.truth_score \in 0..100)

\* five trades, all with sentinel scores, whose sharpe ratio lifts the raw score
\* above 100: the response carries 100
C4_Witness ==
    /\ response.present
    /\ response.metrics.total_trades >= 5
    /\ \A i \in 1..Len(response.trades) :
         response.trades[i].fomo_score = -1000 /\ response.trades[i].panic_score = -1000
    /\ agg.base_score > 100000
    /\ response.metrics.sharpe_ratio > 10000
    /\ response.metrics.truth_score = 100

\* revenge entries, a negative sharpe ratio and a large disposition ratio push the
\* raw score below 0: the response carries 0
C4_WitnessLow ==
    /\ response.present
    /\ response.metrics.revenge_trading_count >= 2
    /\ response.metrics.sharpe_ratio < 0
    /\ response.metrics.disposition_ratio > 10000
    /\ agg.base_score < 0
    /\ response.metrics.truth_score = 0

-----------------------------------------------------------------------------
(* Monte-Carlo determinism across requests of one process *)

\* uploads with distinct entry times: five trades, the same five in another order,
\* five others, six, and two (too few for the simulation)
LuckBatches ==
    LET a == Row("AAA", 0, 1, 4, 5, OkFrame, SpySide)
        b == Row("AAA", 30, 31, 4, 3, OkFrame, SpySide)
        c == Row("BBB", 60, 61, 4, 6, NoData, SpySide)
        d == Row("BBB", 90, 91, 4, 2, NoData, SpySide)
        e == Row("CCC", 120, 121, 3, 4, OkFrame, SpySide)
        f == Row("CCC", 150, 151, 5, 4, OkFrame, SpySide)
    IN  { <<a, b, c, d, e>>, <<e, d, c, b, a>>, <<a, c, d, e, f>>,
          <<a, b, c, d, e, f>>, <<a, b>> }

InitLuck == InitWith(LuckBatches, {1, 4711})

\* the next request to the same process: the generator state survives, the
\* request-local state does not
NextRequest ==
    /\ pc = "done"
    /\ served + 1 < MaxRequests
    /\ served' = served + 1
    /\ rows' \in LuckBatches
    /\ pc' = "enrich"
    /\ enriched_trades' = <<>>
    /\ trades_df' = <<>>
    /\ revenge_count' = 0
    /\ agg' = NoAgg
    /\ response' = NoResponse
    /\ UNCHANGED <<rng, luck_log, printed, call, ret, cache, inflight>>

NextLuck ==
    \/ Next
    \/ NextRequest

SpecLuck == InitLuck /\ [][NextLuck]_vars

\* the same trades, in whatever upload order
SameTradeSet(r1, r2) ==
    /\ Len(r1) = Len(r2)
    /\ \A x \in {r1[i] : i \in 1..Len(r1)} \cup {r2[i] : i \in 1..Len(r2)} :
         Cardinality({i \in 1..Len(r1) : r1[i] = x})
            = Cardinality({i \in 1..Len(r2) : r2[i] = x})

\* C5: two analyses of the same trade set in one process report the same
\* luck_percentile, whatever was analysed before or in between
C5_LuckDeterministic ==
    \A i, j \in 1..Len(luck_log) :
        SameTradeSet(luck_log[i].rows, luck_log[j].rows)
            => luck_log[i].luck = luck_log[j].luck

\* a simulated trade set analysed twice with a different simulated analysis in
\* between that reported another percentile
C5_Witness ==
    /\ Len(luck_log) >= 3
    /\ luck_log[1].rows = luck_log[3].rows
    /\ Len(luck_log[1].rows) >= 5
    /\ Len(luck_log[2].rows) >= 5
    /\ luck_log[2].luck # luck_log[1].luck
    /\ luck_log[1].luck \notin {0, 100000}

-----------------------------------------------------------------------------
(* Equity curve *)

\* sum of the pnl of the first k points of a curve
PrefixPnl(curve, k) == SumSeq([i \in 1..k |-> curve[i].pnl])

\* the trades of the response that a curve point can stand for
TradesOfPoint(trades, p) ==
    { i \in 1..Len(trades) :
        /\ trades[i].entry_date = p.date
        /\ trades[i].ticker = p.ticker
        /\ trades[i].pnl = p.pnl }

\* C6: the equity curve has one point per trade, in ascending entry-time order;
\* the k-th cumulative_pnl is the sum of the pnl of the first k trades in that
\* order and the last one is the sum of the pnl of all trades
C6_EquityCurve ==
    response.present =>
        LET curve == response.equity_curve
            trades == response.trades
        IN  /\ Len(curve) = Len(trades)
            /\ \A k \in 1..(Len(curve) - 1) : curve[k].date <= curve[k + 1].date
            /\ \A k \in 1..Len(curve) :
                 /\ Cardinality({ i \in 1..Len(curve) :
                                     /\ curve[i].date = curve[k].date
                                     /\ curve[i].ticker = curve[k].ticker
                                     /\ curve[i].pnl = curve[k].pnl })
                       = Cardinality(TradesOfPoint(trades, curve[k]))
                 /\ curve[k].cumulative_pnl = PrefixPnl(curve, k)
            /\ curve[Len(curve)].cumulative_pnl
                 = SumSeq([i \in 1..Len(trades) |-> trades[i].pnl])

\* three trades uploaded out of entry order, a win between two losses
C6_Witness ==
    /\ response.present
    /\ Len(rows) = 3
    /\ rows[1].entry > rows[2].entry
    /\ Len(response.equity_curve) = 3
    /\ response.equity_curve[1].pnl < 0
    /\ response.equity_curve[2].pnl > 0
    /\ response.equity_curve[3].pnl < 0
    /\ response.equity_curve[1].date < response.equity_curve[2].date
    /\ response.equity_curve[2].cumulative_pnl
          = response.equity_curve[1].pnl + response.equity_curve[2].pnl

-----------------------------------------------------------------------------
(* Bias priority *)

\* C7: a bias_priority list in the response is ordered by non-increasing
\* composite score, its priority fields are 1, 2, ..., k in list order, and no
\* bias appears twice
C7_PriorityRanked ==
    response.present =>
        LET bp == response.bias_priority
        IN  /\ response.has_priority = (bp # <<>>)
            /\ \A i \in 1..(Len(bp) - 1) :
                 calculate_priority_score(bp[i]) >= calculate_priority_score(bp[i + 1])
            /\ \A i \in 1..Len(bp) : bp[i].priority = i
            /\ \A i, j \in 1..Len(bp) : bp[i].bias = bp[j].bias => i = j

\* three biases ranked with strictly decreasing scores in another order than the
\* one they were appended in (FOMO, Panic Sell, Revenge Trading, Disposition Effect)
C7_Witness ==
    /\ response.present
    /\ Len(response.bias_priority) >= 3
    /\ \A i \in 1..(Len(response.bias_priority) - 1) :
         calculate_priority_score(response.bias_priority[i])
            > calculate_priority_score(response.bias_priority[i + 1])
    /\ response.bias_priority[1].bias # "FOMO"
    /\ \E i \in 2..Len(response.bias_priority) : response.bias_priority[i].bias = "FOMO"

-----------------------------------------------------------------------------
(* Trades without usable market data *)

\* the market-data fetch returned nothing, or the metric calculation raises
FailedRow(row) == ~ row.md.found \/ row.md.raises

\* the response trade t was built from the uploaded row
TradeOfRow(t, row) ==
    /\ t.ticker = row.ticker
    /\ t.entry_date = row.entry
    /\ t.exit_date = row.exit
    /\ t.entry_price = row.entry_price
    /\ t.exit_price = row.exit_price

FailedTrade(t) == \E r \in 1..Len(rows) : FailedRow(rows[r]) /\ TradeOfRow(t, rows[r])

\* C9: a trade whose market data is missing or whose metric calculation raised
\* is in the response with fomo_score = panic_score = -1.0 and mae = mfe =
\* efficiency = regret = 0.0; its pnl counts in the win rate and the equity
\* curve; the fomo average, the regime-weighted fomo index and the panic average
\* are those of the other trades alone
C9_FailedTradeDegrades ==
    response.present =>
        LET trades == response.trades
            good == SelectSeq(trades, LAMBDA t : ~ FailedTrade(t))
        IN  /\ \A r \in 1..Len(rows) :
                 FailedRow(rows[r]) =>
                     Cardinality({ i \in 1..Len(trades) : TradeOfRow(trades[i], rows[r]) })
                        = Cardinality({ q \in 1..Len(rows) : rows[q] = rows[r] })
            /\ \A i \in 1..Len(trades) :
                 FailedTrade(trades[i]) =>
                     /\ trades[i].fomo_score = -1000 /\ trades[i].panic_score = -1000
                     /\ trades[i].mae = 0 /\ trades[i].mfe = 0
                     /\ trades[i].efficiency = 0 /\ trades[i].regret = 0
            /\ response.metrics.total_trades = Len(rows)
            /\ response.metrics.win_rate
                  = Fx(Cardinality({ i \in 1..Len(trades) : trades[i].pnl > 0 }), Len(rows))
            /\ Len(response.equity_curve) = Len(rows)
            /\ response.equity_curve[Len(rows)].cumulative_pnl
                  = SumSeq([i \in 1..Len(trades) |-> trades[i].pnl])
            /\ response.metrics.fomo_score
                  = Mean([i \in 1..Len(good) |-> good[i].fomo_score])
            /\ agg.weighted_fomo_index = Mean([i \in 1..Len(good) |-> FomoTerm(good[i])])
            /\ response.metrics.panic_score
                  = 1000 - Mean([i \in 1..Len(good) |-> PanicTerm(good[i])])

\* a response with a winning trade whose calculation raised, a losing trade
\* without market data and a trade with real scores
C9_Witness ==
    /\ response.present
    /\ \E r \in 1..Len(rows) : rows[r].md.raises
    /\ \E r \in 1..Len(rows) : ~ rows[r].md.found
    /\ \E i \in 1..Len(response.trades) :
         FailedTrade(response.trades[i]) /\ response.trades[i].pnl > 0
    /\ \E i \in 1..Len(response.trades) :
         FailedTrade(response.trades[i]) /\ response.trades[i].pnl < 0
    /\ \E i \in 1..Len(response.trades) : response.trades[i].fomo_score > 0
    /\ response.metrics.fomo_score > 0
    /\ response.metrics.win_rate > 0

-----------------------------------------------------------------------------
(* Sample-size gates and degraded batches *)

\* a win with bars before the entry time in a bull market; a loss without bars
\* whose benchmark fetch raises; a forty-day loss bought at the high and sold at
\* the low in a bear market, whose intraday fetch fails; a loss whose benchmark
\* fetch comes back empty.  The entry hours differ.
GateTemplates ==
    { Row("AAA", 0, 1, 4, 5,
          [OkFrame EXCEPT !.intra = "pre", !.iHigh = 5, !.iLow = 4], SpyBull),
      Row("BBB", 1, 2, 4, 3, NoData, SpyRaise),
      Row("CCC", 2, 962, 5, 2,
          [OkFrame EXCEPT !.intra = "fail", !.xLow = 2, !.hLow = 2], SpyBear),
      Row("DDD", 3, 4, 4, 3, OkFrame, SpyEmpty) }

\* uploads listed in entry order
GateBatches ==
    { b \in BatchesOver(GateTemplates, MaxGateTrades) :
        \A i \in 1..(Len(b) - 1) : b[i].entry <= b[i + 1].entry }

InitGate == InitWith(GateBatches, {1})

SpecGate == InitGate /\ [][Next]_vars

\* C8: is_low_sample is true exactly when there are fewer than 5 trades; with
\* fewer than 5 the simulation is skipped and luck_percentile is 50.0;
\* personal_baseline is present exactly from 3 trades on; behavior_shift is
\* absent with fewer than 6 trades
C8_SampleGates ==
    response.present =>
        LET total_trades == Len(rows)
        IN  /\ response.metrics.total_trades = total_trades
            /\ response.is_low_sample = (total_trades < 5)
            /\ (total_trades < 5 =>
                   /\ ~ agg.simulated
                   /\ rng = 1
                   /\ response.metrics.luck_percentile = 50000)
            /\ response.has_baseline = (total_trades >= 3)
            /\ (total_trades < 6 => ~ response.has_shift)

\* Scenario D: two trades
C8_Witness ==
    /\ response.present
    /\ Len(rows) = 2
    /\ response.is_low_sample
    /\ ~ response.has_baseline
    /\ ~ response.has_shift
    /\ response.metrics.luck_percentile = 50000

\* the gates on their open side: six trades are simulated, have a baseline and
\* a behavior shift
C8_WitnessSix ==
    /\ response.present
    /\ Len(rows) = 6
    /\ ~ response.is_low_sample
    /\ agg.simulated
    /\ response.has_baseline
    /\ response.has_shift

\* the stages of analyze_trades still to run
Stages ==
    {"enrich", "sort", "revenge", "aggregate", "luck", "truth", "attribute", "shift",
     "equity", "decompose", "respond"}

\* C10: whatever fails (bars not found, intraday fetch, benchmark fetch empty or
\* raising, narrative service), no exception leaves analyze_trades: it is in one
\* of its stages or has ended, and it ends only with a response that lists
\* exactly as many trades as the N >= 1 that were uploaded
C10_BatchAlwaysAnswered ==
    /\ pc # "raised"
    /\ pc \in Stages \cup {"done"}
    /\ (pc = "done") = response.present
    /\ (response.present => Len(rows) >= 1 /\ Len(response.trades) = Len(rows))

\* a response to a batch in which every kind of failure happened
C10_Witness ==
    /\ response.present
    /\ Len(response.trades) = Len(rows)
    /\ \E r \in 1..Len(rows) : ~ rows[r].md.found
    /\ \E r \in 1..Len(rows) : rows[r].md.found /\ rows[r].md.intra = "fail"
    /\ \E r \in 1..Len(rows) : rows[r].spy.st = "empty"
    /\ \E r \in 1..Len(rows) : rows[r].spy.st = "raise"
    /\ agg.benchmark_load_failed
    /\ agg.spy_load_failed_opportunity
    /\ "Causal Chain LLM error" \in printed
    /\ response.deep_patterns # <<>>

-----------------------------------------------------------------------------
(* Stage ordering *)

\* a loss re-entered an hour after its exit, a buy at the high on a volume spike,
\* a trade without bars, a trade whose calculation raises and a forty-day loss;
\* all entry hours differ
OrderRows ==
    { Row("AAA", 0, 1, 4, 3, OkFrame, SpySide),
      Row("AAA", 2, 3, 4, 5, OkFrame, SpyBull),
      Row("BBB", 30, 31, 4, 5, HotFrame, SpyBear),
      Row("BBB", 60, 61, 4, 3, NoData, SpyRaise),
      Row("CCC", 90, 91, 4, 5, BadFrame, SpySide),
      Row("CCC", 120, 1080, 4, 3, OkFrame, SpyEmpty) }

\* every upload order of a set of rows
UploadOrders(set) ==
    { b \in [1..Cardinality(set) -> set] :
        \A i, j \in 1..Cardinality(set) : b[i] = b[j] => i = j }

\* the six rows in every upload order, and three of them in every order
OrderBatches ==
    UploadOrders(OrderRows) \cup UploadOrders({ r \in OrderRows : r.entry < 60 })

InitOrder == InitWith(OrderBatches, {1})

SpecOrder == InitOrder /\ [][Next]_vars

SortedByEntry(df) == \A i \in 1..(Len(df) - 1) : df[i].entry_dt <= df[i + 1].entry_dt

\* the rows of df are the enriched rows of the upload, each as often, whatever
\* their revenge flags
SameEnrichedRows(df, upload) ==
    /\ Len(df) = Len(upload)
    /\ \A r \in 1..Len(upload) :
         Cardinality({ i \in 1..Len(df) :
                         [df[i] EXCEPT !.is_revenge = FALSE] = EnrichRow(upload[r]) })
            = Cardinality({ q \in 1..Len(upload) :
                              EnrichRow(upload[q]) = EnrichRow(upload[r]) })

\* C11: whenever revenge detection, behavior-shift detection or equity-curve
\* construction is about to run, the per-row loop has produced the metrics of
\* every uploaded trade and the trade table holds exactly those trades in
\* ascending entry-time order
C11_StageOrdering ==
    pc \in {"revenge", "shift", "equity"} =>
        /\ Len(enriched_trades) = Len(rows)
        /\ \A i \in 1..Len(rows) : enriched_trades[i] = EnrichRow(rows[i])
        /\ SameEnrichedRows(trades_df, rows)
        /\ SortedByEntry(trades_df)

\* six trades uploaded latest first: the equity curve is about to be built from
\* the sorted table after a revenge entry was flagged and a shift was computed
C11_Witness ==
    /\ pc = "equity"
    /\ Len(rows) = 6
    /\ \A i \in 1..5 : rows[i].entry > rows[i + 1].entry
    /\ SortedByEntry(trades_df)
    /\ revenge_count = 1
    /\ trades_df[2].is_revenge
    /\ agg.has_shift

-----------------------------------------------------------------------------
(* Stages and their input *)

\* the stages that receive the sorted trade table
TableStages == {"revenge", "aggregate", "attribute", "shift", "equity", "decompose", "respond"}

\* C12: revenge detection, aggregation, bias attribution, behavior shift, equity
\* curve, contextual decomposition and deep-pattern extraction each leave the
\* trade table they receive as it was
C12_NoStageMutatesInput == [][(pc \in TableStages) => (trades_df' = trades_df)]_vars

\* extract_deep_patterns alone: the step that builds the response leaves the
\* trade table as it was
C12_DeepPatternsKeepInput == [][(pc = "respond") => (trades_df' = trades_df)]_vars

-----------------------------------------------------------------------------
(* Risk-adjusted ratios *)

\* the per-trade returns the response lists
ResponseReturns == [i \in 1..Len(response.trades) |-> response.trades[i].return_pct]

\* C13: sharpe_ratio is 0.0 when there are fewer than 2 returns or their deviation
\* is 0 (all returns equal), and sortino_ratio is 0.0 when there are fewer than 2
\* returns or the downside deviation is 0 (no negative return)
C13_RatiosGuarded ==
    response.present =>
        LET rs == ResponseReturns
        IN  /\ (Len(rs) < 2 \/ \A i, j \in 1..Len(rs) : rs[i] = rs[j])
                  => response.metrics.sharpe_ratio = 0
            /\ (Len(rs) < 2 \/ \A i \in 1..Len(rs) : rs[i] >= 0)
                  => response.metrics.sortino_ratio = 0

-----------------------------------------------------------------------------
(* Helpers called on their own *)

\* the state before a direct call of a helper: no request is in progress
InitCall(calls) ==
    /\ rows = <<>>
    /\ pc = "call"
    /\ enriched_trades = <<>>
    /\ trades_df = <<>>
    /\ revenge_count = 0
    /\ agg = NoAgg
    /\ response = NoResponse
    /\ rng = 1
    /\ served = 0
    /\ luck_log = <<>>
    /\ printed = {}
    /\ call \in calls
    /\ ret = <<>>
    /\ cache = <<>>
    /\ inflight = <<>>

\* scores around the 0.3 and 0.7 thresholds, the ends of [0, 1] and the sentinel
ScoreGrid == {-1000, 0, 299, 300, 301, 500, 699, 700, 701, 1000}

Regimes == {"BULL", "BEAR", "SIDEWAYS", "UNKNOWN"}

RegimeWeightCalls ==
    { [fn |-> "calculate_regime_weight", market_regime |-> r, fomo_score |-> f,
       panic_score |-> p] : r \in Regimes, f \in ScoreGrid, p \in ScoreGrid }

InitRegime == InitCall(RegimeWeightCalls)

\* calculate_regime_weight(market_regime, fomo_score, panic_score) returns
CallRegimeWeight ==
    /\ pc = "call"
    /\ call.fn = "calculate_regime_weight"
    /\ ret' = <<calculate_regime_weight(call.market_regime, call.fomo_score,
                                        call.panic_score)>>
    /\ pc' = "returned"
    /\ UNCHANGED <<rows, enriched_trades, trades_df, revenge_count, agg, response, rng,
                   served, luck_log, printed, call, cache, inflight>>

SpecRegime == InitRegime /\ [][CallRegimeWeight]_vars

\* C14: calculate_regime_weight returns one of 0.8, 1.0, 1.5; with fomo-buy
\* meaning a score of at least 0.7 and panic-sell a score of at most 0.3 that is
\* not the sentinel -1, BULL gives 1.5 for panic-sell, 0.8 for fomo-buy and 1.0
\* for neither, BEAR gives 1.0 for panic-sell, 1.5 for fomo-buy and 1.0 for
\* neither (with both signals, the value of one of the two), and SIDEWAYS and
\* UNKNOWN give 1.0
C14_RegimeWeightTable ==
    (pc = "returned" /\ call.fn = "calculate_regime_weight") =>
        LET w == ret[1]
            fomo_buy == call.fomo_score >= 700
            panic_sell == call.panic_score <= 300 /\ call.panic_score # -1000
            cell(panic, fomo, neither) ==
                /\ (panic_sell /\ ~ fomo_buy => w = panic)
                /\ (fomo_buy /\ ~ panic_sell => w = fomo)
                /\ (panic_sell /\ fomo_buy => w \in {panic, fomo})
                /\ (~ panic_sell /\ ~ fomo_buy => w = neither)
        IN  /\ w \in {8, 10, 15}
            /\ (call.market_regime = "BULL" => cell(15, 8, 10))
            /\ (call.market_regime = "BEAR" => cell(10, 15, 10))
            /\ (call.market_regime \in {"SIDEWAYS", "UNKNOWN"} => w = 10)

\* a BULL trade bought at exactly 0.7 whose panic score is the sentinel: 0.8
C14_Witness ==
    /\ pc = "returned"
    /\ call.fn = "calculate_regime_weight"
    /\ call.market_regime = "BULL"
    /\ call.fomo_score = 700
    /\ call.panic_score = -1000
    /\ ret = <<8>>

-----------------------------------------------------------------------------
(* Volume weighting *)

\* (volume of the day, 20-bar average volume, at least 20 bars): ratios 0.5, 2.0,
\* 2.5, 4.5 and 5.0, a zero average, and too short a history
VolumeCases ==
    { <<1, 2, TRUE>>, <<4, 2, TRUE>>, <<5, 2, TRUE>>, <<9, 2, TRUE>>, <<10, 2, TRUE>>,
      <<3, 0, TRUE>>, <<9, 2, FALSE>>, <<10, 2, FALSE>> }

\* one trade over an entry day and an exit day that both range from 10 to 20, so
\* that the base scores are 0.0, 0.1, ..., 1.0 without a split adjustment
VolumeBatches ==
    { <<Row("AAA", 0, 24, p, q,
            [OkFrame EXCEPT !.eHigh = 20, !.eLow = 10, !.xHigh = 20, !.xLow = 10,
                            !.hLow = 10, !.hHigh = 20, !.postMax = 20,
                            !.eVol = e[1], !.eAvg = e[2], !.eHist = e[3],
                            !.xVol = x[1], !.xAvg = x[2], !.xHist = x[3]],
            SpySide)>> :
        p \in 10..20, q \in 10..20, e \in VolumeCases,
        x \in { c \in VolumeCases : c[1] \in {1, 9, 10} /\ c[3] } }

InitVolume == InitWith(VolumeBatches, {1})

SpecVolume == InitVolume /\ [][Next]_vars

\* the weight of the volume table: 1.0 below a ratio of 2.5, 1.2 below 5.0, 1.5
\* from 5.0 on; 1.0 without 20 bars of history or with a zero average
TableWeight(vol, avg, hist) ==
    IF ~ hist \/ avg = 0 THEN 10
    ELSE IF 2 * vol < 5 * avg THEN 10
    ELSE IF vol < 5 * avg THEN 12
    ELSE 15

\* C15: each enriched trade has the volume weights of the table; its fomo_score
\* exceeds 0.7 exactly when its fomo_score_base does and its panic_score is below
\* 0.3 exactly when its panic_score_base is; a base score that is not past its
\* threshold is the effective score
C15_VolumeAmplifies ==
    \A i \in 1..Len(enriched_trades) :
        LET t == enriched_trades[i]
            md == rows[i].md
        IN  /\ t.volume_weight_entry = TableWeight(md.eVol, md.eAvg, md.eHist)
            /\ t.volume_weight_exit = TableWeight(md.xVol, md.xAvg, md.xHist)
            /\ (t.fomo_score > 700) = (t.fomo_score_base > 700)
            /\ (t.panic_score < 300) = (t.panic_score_base < 300)
            /\ (t.fomo_score_base <= 700 => t.fomo_score = t.fomo_score_base)
            /\ (t.panic_score_base >= 300 => t.panic_score = t.panic_score_base)

\* a buy at 0.8 of the range on a volume ratio of 4.5 and a sale at 0.2 of the
\* range on a ratio of 5.0: the scores become 0.96 and 0.1
C15_Witness ==
    /\ Len(enriched_trades) = 1
    /\ enriched_trades[1].fomo_score_base = 800
    /\ enriched_trades[1].volume_weight_entry = 12
    /\ enriched_trades[1].fomo_score = 960
    /\ enriched_trades[1].panic_score_base = 200
    /\ enriched_trades[1].volume_weight_exit = 15
    /\ enriched_trades[1].panic_score = 100

-----------------------------------------------------------------------------
(* Contextual decomposition *)

\* single trades over days that range from 10 to 20: bought at 0.6, 0.7 or 0.8 of
\* the range and sold at 0.2, 0.3, 0.4 or 0.9 of it, on normal or spiking volume,
\* in each regime; and a loss without bars followed by a re-entry without bars
ContextBatches ==
    { <<Row("AAA", 0, 24, p, q,
            [OkFrame EXCEPT !.eHigh = 20, !.eLow = 10, !.xHigh = 20, !.xLow = 10,
                            !.hLow = 10, !.hHigh = 20, !.postMax = 20,
                            !.eVol = ev, !.eAvg = 2, !.xVol = xv, !.xAvg = 2],
            spy)>> :
        p \in {16, 17, 18}, q \in {12, 13, 14, 19}, ev \in {1, 10}, xv \in {1, 9},
        spy \in {SpyBull, SpyBear, SpySide} }
    \cup { <<Row("BBB", 0, 1, 4, 3, NoData, SpySide), Row("BBB", 2, 3, 4, 5, md, spy)>> :
             md \in {NoData, BadFrame}, spy \in {SpyBull, SpyRaise} }

InitContext == InitWith(ContextBatches, {1})

SpecContext == InitContext /\ [][Next]_vars

\* C16: a trade of the response carries base_score, volume_weight, regime_weight
\* and contextual_score exactly when its fomo_score is not the sentinel and at
\* least 0.7, or its panic_score is not the sentinel and at most 0.3, or it is
\* flagged is_revenge; then base_score is within [0, 100], volume_weight is the
\* larger of its entry-side and exit-side weights and contextual_score is
\* base_score x volume_weight x regime_weight clamped to [0, 150]
C16_ContextDecomposition ==
    response.present =>
        \A i \in 1..Len(response.trades) :
            LET t == response.trades[i]
                signal == \/ (t.fomo_score # -1000 /\ t.fomo_score >= 700)
                          \/ (t.panic_score # -1000 /\ t.panic_score <= 300)
                          \/ t.is_revenge
                product == (t.base_score * t.volume_weight * t.regime_weight) \div 100
            IN  /\ t.has_ctx = signal
                /\ t.has_ctx =>
                     /\ t.base_score \in 0..100000
                     /\ t.volume_weight
                          = Max(trades_df[i].volume_weight_entry,
                                trades_df[i].volume_weight_exit)
                     /\ t.contextual_score
                          = (IF product > 150000 THEN 150000
                             ELSE IF product < 0 THEN 0 ELSE product)

\* a BEAR buy at 0.8 of the range on extreme entry volume and elevated exit
\* volume: 82.0 x 1.5 x 1.5 is clamped to 150
C16_Witness ==
    /\ response.present
    /\ Len(response.trades) = 1
    /\ response.trades[1].has_ctx
    /\ response.trades[1].market_regime = "BEAR"
    /\ response.trades[1].base_score = 82000
    /\ trades_df[1].volume_weight_entry = 15
    /\ trades_df[1].volume_weight_exit = 12
    /\ response.trades[1].volume_weight = 15
    /\ response.trades[1].regime_weight = 15
    /\ response.trades[1].contextual_score = 150000

\* a re-entry without bars: flagged is_revenge, both scores the sentinel, and the
\* decomposition attached with 100 x 1.0 x 1.0; its losing predecessor has none
C16_WitnessRevenge ==
    /\ response.present
    /\ Len(response.trades) = 2
    /\ ~ response.trades[1].has_ctx
    /\ response.trades[2].is_revenge
    /\ response.trades[2].fomo_score = -1000
    /\ response.trades[2].has_ctx
    /\ response.trades[2].contextual_score = 100000

-----------------------------------------------------------------------------
(* Which biases are listed *)

\* the original reading of C17: every listed bias has financial_loss > 0 or
\* frequency > 0.30, with frequency and severity within [0, 1]
C17_ListedByLossOrFrequency ==
    response.present =>
        \A i \in 1..Len(response.bias_priority) :
            LET p == response.bias_priority[i]
            IN  /\ p.financial_loss > 0 \/ p.frequency > 300
                /\ p.frequency \in 0..1000
                /\ p.severity \in 0..1000

\* C17 (amended): a listed FOMO or Panic Sell row has financial_loss > 0 or
\* frequency > 0.30; a listed Revenge Trading row has financial_loss > 0 or a
\* revenge count above 0; a listed Disposition Effect row has financial_loss > 0
\* or a disposition ratio above 1.2; every listed row has frequency and severity
\* within [0, 1]
C17_ListedBySignal ==
    response.present =>
        \A i \in 1..Len(response.bias_priority) :
            LET p == response.bias_priority[i]
            IN  /\ p.bias \in {"FOMO", "Panic Sell", "Revenge Trading", "Disposition Effect"}
                /\ p.bias \in {"FOMO", "Panic Sell"}
                      => (p.financial_loss > 0 \/ p.frequency > 300)
                /\ p.bias = "Revenge Trading"
                      => (p.financial_loss > 0 \/ response.metrics.revenge_trading_count > 0)
                /\ p.bias = "Disposition Effect"
                      => (p.financial_loss > 0 \/ response.metrics.disposition_ratio > 1200)
                /\ p.frequency \in 0..1000
                /\ p.severity \in 0..1000

\* a Disposition Effect row listed with no attributed loss and frequency 0, on a
\* disposition ratio above 1.2 whose severity is capped at 1.0, next to a FOMO row
\* listed on its loss
C17_Witness ==
    /\ response.present
    /\ \E i \in 1..Len(response.bias_priority) :
         /\ response.bias_priority[i].bias = "Disposition Effect"
         /\ response.bias_priority[i].financial_loss = 0
         /\ response.bias_priority[i].frequency = 0
         /\ response.bias_priority[i].severity = 1000
    /\ response.metrics.disposition_ratio > 2500
    /\ \E i \in 1..Len(response.bias_priority) :
         /\ response.bias_priority[i].bias = "FOMO"
         /\ response.bias_priority[i].financial_loss > 0

-----------------------------------------------------------------------------
(* Behavior shift *)

\* losing trades two hours apart, each closed within the hour, one per ticker of
\* the list: a trade re-enters its predecessor's ticker or opens another one
ChainOf(tickers) ==
    [i \in 1..Len(tickers) |->
        Row(tickers[i], 2 * i, 2 * i + 1, 4, 3, OkFrame, SpySide)]

\* ten trades of which 5 of the first 7 and 2 of the last 3 are revenge entries,
\* and every six-trade chain over two tickers
ShiftBatches ==
    { ChainOf(<<"AAA", "AAA", "AAA", "AAA", "AAA", "AAA", "BBB", "BBB", "BBB", "CCC">>) }
    \cup { ChainOf(s) : s \in [1..6 -> {"AAA", "BBB"}] }

InitShift == InitWith(ShiftBatches, {1})

SpecShift == InitShift /\ [][Next]_vars

\* revenge entries per trade among the trades lo..hi of the response, in millionths
FlaggedRate(trades, lo, hi) ==
    (Cardinality({ i \in lo..hi : trades[i].is_revenge }) * 1000000) \div (hi - lo + 1)

\* C18: the Revenge Trading shift compares the last 3 trades of the entry-time
\* order with all the others; a reported trend is STABLE exactly when
\* |change_percent| is at most 5 for FOMO and Panic Sell and at most 10 for
\* Disposition Effect and Revenge Trading; below the band the trend is IMPROVING
\* and above it WORSENING, the other way round for Panic Sell
C18_ShiftTrends ==
    (response.present /\ response.has_shift) =>
        LET n == Len(response.trades)
        IN  \A k \in 1..Len(response.behavior_shift) :
                LET s == response.behavior_shift[k]
                    band == IF s.bias \in {"FOMO", "Panic Sell"} THEN 5000 ELSE 10000
                    down == IF s.bias = "Panic Sell" THEN "WORSENING" ELSE "IMPROVING"
                    up == IF s.bias = "Panic Sell" THEN "IMPROVING" ELSE "WORSENING"
                IN  /\ (s.trend = "STABLE")
                          = (-band <= s.change_percent /\ s.change_percent <= band)
                    /\ (s.change_percent < -band => s.trend = down)
                    /\ (s.change_percent > band => s.trend = up)
                    /\ s.bias = "Revenge Trading" =>
                          /\ s.recent_value = FlaggedRate(response.trades, n - 2, n)
                          /\ s.baseline_value
                                = FlaggedRate(response.trades, 1, n - 3) + 100

-----------------------------------------------------------------------------
(* Disposition ratio *)

\* trades without bars: winners of 1 % closed after 12 hours and after 2 hours, a
\* winner of 10 % held two days and one closed after 2 hours, a loser held two
\* days and a loser held forty days
DispositionTemplates ==
    { Row("AAA", 0, 12, 100, 101, NoData, SpySide),
      Row("AAA", 30, 32, 100, 101, NoData, SpySide),
      Row("BBB", 0, 48, 100, 110, NoData, SpySide),
      Row("BBB", 60, 62, 100, 110, NoData, SpySide),
      Row("CCC", 0, 48, 100, 90, NoData, SpySide),
      Row("CCC", 3, 963, 100, 90, NoData, SpySide) }

InitDisposition == InitWith(BatchesOver(DispositionTemplates, MaxTrades), {1})

SpecDisposition == InitDisposition /\ [][Next]_vars

\* the ratio as the claim computes it from the trades of a response: the chicken
\* exits are the winners closed less than 0.1 day (2.4 hours) after their entry
\* at a return under 2 %
ClaimedDispositionRatio(trades) ==
    LET w == SelectSeq(trades, LAMBDA t : t.pnl > 0)
        l == SelectSeq(trades, LAMBDA t : t.pnl <= 0)
        sumW == SumSeq([i \in 1..Len(w) |-> w[i].duration_days])
        sumL == SumSeq([i \in 1..Len(l) |-> l[i].duration_days])
        base == IF sumW > 0 /\ Len(l) > 0 THEN Fx(sumL * Len(w), sumW * Len(l)) ELSE 0
        chicken == Len(SelectSeq(w, LAMBDA t : 10 * (t.exit_date - t.entry_date) < 24
                                               /\ t.return_pct < 20))
        afterShort == IF 10 * chicken > 3 * Len(w)
                      THEN (base * (1000 + Fx(chicken, Len(w)) \div 2)) \div 1000
                      ELSE base
        long == Len(SelectSeq(l, LAMBDA t : t.duration_days > 30))
    IN  IF 10 * long > 2 * Len(l)
        THEN (afterShort * (1000 + (Fx(long, Len(l)) * 3) \div 10)) \div 1000
        ELSE afterShort

\* C20: disposition_ratio is the losers' mean holding days over the winners',
\* times (1 + 0.5 x short_win_ratio) exactly when more than 30 % of the winners
\* closed within 0.1 day of their entry at under 2 % return, times
\* (1 + 0.3 x long_loss_ratio) exactly when more than 20 % of the losers were held
\* over 30 days
C20_DispositionRatio ==
    response.present =>
        response.metrics.disposition_ratio = ClaimedDispositionRatio(response.trades)

-----------------------------------------------------------------------------
(* Market regime detection *)

MaxBars == 5

\* closes of the benchmark: 2 % and more apart around 100
CloseGrid == {95, 100, 106}

\* bars before the free ones, enough for the 20-bar window to leave some out
LongHistory == 17

\* the row of spy_df nearest to trade_date when bar i is dated 2 * i (lines
\* 478-482): get_indexer(method='nearest') prefers the later bar on a tie
NearestBar(n, trade_date) ==
    CHOOSE i \in 1..n :
        \A j \in 1..n : \/ Abs(2 * i - trade_date) < Abs(2 * j - trade_date)
                        \/ (Abs(2 * i - trade_date) = Abs(2 * j - trade_date) /\ i >= j)

\* what detect_market_regime reads from the downloaded bars (lines 476-495): the
\* close and the rolling mean (window 20, min_periods 1) of the bar of the trade
\* date, here both times the number of bars in the window, and the change against
\* the close five bars earlier when there is one
SpyOfBars(st, closes, trade_date) ==
    IF st # "ok" \/ closes = <<>>
    THEN [st |-> IF st = "ok" THEN "empty" ELSE st,
          has5 |-> FALSE, close |-> 0, ma20 |-> 0, chg |-> 0]
    ELSE LET i == NearestBar(Len(closes), trade_date)
             first == Max(1, i - 19)
             window == SubSeq(closes, first, i)
             prev_5_idx == i - 5
         IN  [st |-> "ok",
              has5 |-> prev_5_idx >= 1,
              close |-> closes[i] * Len(window),
              ma20 |-> SumSeq(window),
              chg |-> IF prev_5_idx >= 1
                      THEN Fx(closes[i] - closes[prev_5_idx], closes[prev_5_idx])
                      ELSE 0]

\* downloads of up to MaxBars bars, alone or after a long flat history, for trade
\* dates on and between the bars and after the last; an empty and a failed download
DetectRegimeCalls ==
    { [fn |-> "detect_market_regime", st |-> "ok",
       closes |-> [j \in 1..p |-> 100] \o tail, trade_date |-> 2 * p + d] :
        p \in {0, LongHistory},
        tail \in UNION { [1..k -> CloseGrid] : k \in 1..MaxBars },
        d \in 1..(2 * MaxBars + 2) }
    \cup { [fn |-> "detect_market_regime", st |-> s, closes |-> <<>>, trade_date |-> 2] :
             s \in {"empty", "raise"} }

InitDetect == InitCall({ c \in DetectRegimeCalls : c.trade_date <= 2 * Len(c.closes) + 2 })

\* detect_market_regime(ticker, date, market_df) returns
CallDetectRegime ==
    /\ pc = "call"
    /\ call.fn = "detect_market_regime"
    /\ ret' = <<detect_market_regime(SpyOfBars(call.st, call.closes, call.trade_date))>>
    /\ pc' = "returned"
    /\ UNCHANGED <<rows, enriched_trades, trades_df, revenge_count, agg, response, rng,
                   served, luck_log, printed, call, cache, inflight>>

SpecDetect == InitDetect /\ [][CallDetectRegime]_vars

\* the bar the classification is made on, the sum and size of its 20-bar window
\* and whether a close five bars earlier exists, from the arguments of the call
DetectBar == NearestBar(Len(call.closes), call.trade_date)

DetectWindow == SubSeq(call.closes, Max(1, DetectBar - 19), DetectBar)

DetectAboveMean(pct) ==
    100 * call.closes[DetectBar] * Len(DetectWindow) > pct * SumSeq(DetectWindow)

DetectBelowMean(pct) ==
    100 * call.closes[DetectBar] * Len(DetectWindow) < pct * SumSeq(DetectWindow)

DetectHasTrailing == DetectBar >= 6

\* 100 x (close - close five bars earlier) against pct x that earlier close
DetectTrailingOver(pct) ==
    100 * (call.closes[DetectBar] - call.closes[DetectBar - 5])
        > pct * call.closes[DetectBar - 5]

DetectTrailingUnder(pct) ==
    100 * (call.closes[DetectBar] - call.closes[DetectBar - 5])
        < pct * call.closes[DetectBar - 5]

\* C21: detect_market_regime returns BULL only when the close is above the 20-bar
\* mean and the 5-bar trailing return is over +2 %, BEAR only when the close is
\* below the mean and that return is under -2 %, SIDEWAYS otherwise when there
\* are bars, UNKNOWN when there are none or on an error, and never raises
C21_RegimeByTrailingReturn ==
    (pc = "returned" /\ call.fn = "detect_market_regime") =>
        /\ ret[1] \in Regimes
        /\ (call.st # "ok" <=> ret[1] = "UNKNOWN")
        /\ call.st = "ok" =>
             LET bull == DetectHasTrailing /\ DetectAboveMean(100) /\ DetectTrailingOver(2)
                 bear == DetectHasTrailing /\ DetectBelowMean(100) /\ DetectTrailingUnder(-2)
             IN  /\ (ret[1] = "BULL" <=> bull)
                 /\ (ret[1] = "BEAR" <=> bear)
                 /\ (ret[1] = "SIDEWAYS" <=> ~ bull /\ ~ bear)

\* C21 as amended: with a close five bars before the bar of the trade date the
\* rule is the one above; without one, BULL is a close over 1.02 x the mean, BEAR
\* a close under 0.98 x the mean and SIDEWAYS the rest
C21_RegimeWithShortHistory ==
    (pc = "returned" /\ call.fn = "detect_market_regime") =>
        /\ ret[1] \in Regimes
        /\ (call.st # "ok" <=> ret[1] = "UNKNOWN")
        /\ call.st = "ok" =>
             LET bull == IF DetectHasTrailing
                         THEN DetectAboveMean(100) /\ DetectTrailingOver(2)
                         ELSE DetectAboveMean(102)
                 bear == IF DetectHasTrailing
                         THEN DetectBelowMean(100) /\ DetectTrailingUnder(-2)
                         ELSE DetectBelowMean(98)
             IN  /\ (ret[1] = "BULL" <=> bull)
                 /\ (ret[1] = "BEAR" <=> bear)
                 /\ (ret[1] = "SIDEWAYS" <=> ~ bull /\ ~ bear)

\* BULL on a trade date between two bars, classified on the later one, whose
\* 20-bar window leaves the oldest bars out
C21_Witness ==
    /\ pc = "returned"
    /\ call.fn = "detect_market_regime"
    /\ call.st = "ok"
    /\ call.trade_date % 2 = 1
    /\ call.trade_date < 2 * Len(call.closes)
    /\ DetectBar = (call.trade_date + 1) \div 2
    /\ DetectBar > 20
    /\ ret = <<"BULL">>

-----------------------------------------------------------------------------
(* Benchmark failures *)

\* twenty trades of one ticker entered at 10:00 every `gap` days and held `hold`
\* hours, winners and losers in turn, every fifth one with bars
BenchChain(gap, hold) ==
    [k \in 1..20 |->
        Row("AAA", 24 * gap * (k - 1) + 10, 24 * gap * (k - 1) + 10 + hold,
            4, IF k % 2 = 0 THEN 5 ELSE 3,
            IF k % 5 = 1 THEN OkFrame ELSE NoData, SpySide)]

\* uploads that reach the download of the alpha stage (76 days, held overnight or
\* within the day), one that spans 38 days only, and uploads of one or two trades
BenchBatches ==
    { BenchChain(4, 25), BenchChain(4, 1), BenchChain(2, 25) }
    \cup BatchesOver({ Row("AAA", 0, 1, 4, 3, OkFrame, SpySide),
                       Row("AAA", 48, 73, 4, 5, OkFrame, SpySide),
                       Row("BBB", 130, 131, 4, 3, NoData, SpySide) }, 2)

InitBench == InitWith(BenchBatches, {1})

SpecBench == InitBench /\ [][Next]_vars

\* C22: a benchmark download that fails in the alpha, opportunity-cost or equity
\* stage leaves that stage with its fallback (alpha = the average return, an
\* opportunity cost of zero, no benchmark overlay) and sets
\* benchmark_load_failed, and the request is answered with every trade and the
\* metrics
C22_BenchmarkFailureFlagged ==
    /\ pc # "raised"
    /\ response.present =>
         /\ agg.spy_alpha \in {"empty", "raise"} =>
              /\ response.metrics.alpha = agg.avg_return
              /\ response.benchmark_load_failed
         /\ agg.spy_load_failed_opportunity =>
              /\ response.opportunity_cost = 0
              /\ response.benchmark_load_failed
         /\ agg.benchmark_load_failed =>
              /\ \A i \in 1..Len(response.equity_curve) :
                   ~ response.equity_curve[i].has_benchmark
              /\ response.benchmark_load_failed
         /\ Len(response.trades) = Len(rows)
         /\ response.metrics.total_trades = Len(rows)

-----------------------------------------------------------------------------
(* Causal chains *)

\* the events a trade of the response exhibits, as a set of types
EventsOf(t) ==
    (IF t.mae < -20 THEN {"HIGH_MAE"} ELSE {})
    \cup (IF t.duration_days > 30 /\ t.pnl < 0 THEN {"LONG_HOLD"} ELSE {})
    \cup (IF t.market_regime = "BEAR" THEN {"MARKET_DROP"} ELSE {})
    \cup (IF t.panic_score # -1000 /\ t.panic_score < 300 THEN {"PANIC_SELL"} ELSE {})

\* a trade with a valid fomo_score that is over 0.7 or whose pnl is under the
\* 20 % quantile of the pnl column
IsChainCandidate(t, trades) ==
    /\ t.fomo_score # -1000
    /\ (t.fomo_score > 700 \/ BelowQuantile20(t.pnl, trades))

\* the patterns of a response that are causal chains
ChainsOf(patterns) == { i \in 1..Len(patterns) : patterns[i].type = "CAUSAL_CHAIN" }

\* C23: no deep pattern for fewer than 3 trades; at most one CAUSAL_CHAIN, made
\* for a candidate of least pnl among the candidates that exhibits at least 3 of
\* the 4 events, with its events in non-decreasing timestamp order; when the
\* narrative service fails the pattern is still there, described locally
C23_CausalChain ==
    /\ pc # "raised"
    /\ response.present =>
         LET trades == response.trades
             patterns == response.deep_patterns
         IN  /\ Len(trades) < 3 => patterns = <<>>
             /\ Cardinality(ChainsOf(patterns)) <= 1
             /\ \A k \in ChainsOf(patterns) :
                  /\ \E i \in 1..Len(trades) :
                       /\ IsChainCandidate(trades[i], trades)
                       /\ \A j \in 1..Len(trades) :
                            IsChainCandidate(trades[j], trades)
                                => trades[i].pnl <= trades[j].pnl
                       /\ trades[i].ticker = patterns[k].ticker
                       /\ Cardinality(EventsOf(trades[i])) >= 3
                       /\ { patterns[k].events[e].type : e \in 1..Len(patterns[k].events) }
                             = EventsOf(trades[i])
                       /\ \A e \in 1..Len(patterns[k].events) :
                            patterns[k].events[e].timestamp
                               \in {trades[i].entry_date, trades[i].exit_date}
                  /\ \A e \in 1..(Len(patterns[k].events) - 1) :
                       patterns[k].events[e].timestamp
                          <= patterns[k].events[e + 1].timestamp
                  /\ patterns[k].source \in {"llm", "local"}
                  /\ "Causal Chain LLM error" \in printed => patterns[k].source = "local"

\* a chain of all four events, entry events before exit events, described
\* locally after the narrative service failed
C23_Witness ==
    /\ response.present
    /\ "Causal Chain LLM error" \in printed
    /\ Len(response.deep_patterns) = 1
    /\ response.deep_patterns[1].type = "CAUSAL_CHAIN"
    /\ response.deep_patterns[1].source = "local"
    /\ Len(response.deep_patterns[1].events) = 4
    /\ response.deep_patterns[1].events[1].timestamp
          < response.deep_patterns[1].events[4].timestamp

-----------------------------------------------------------------------------
(* The market-data cache under concurrent requests *)

\* requests in flight at once
MaxInflight == 2

\* what calculate_metrics leaves in the frame it was handed, had it written the
\* split-adjusted highs and lows back
FrameAfterMetrics_Adjusted(row, df) ==
    [df EXCEPT !.eHigh = row.entry_price, !.xHigh = row.exit_price]

\* what calculate_metrics leaves in the frame it was handed: it only reads it
\* (df.index, df.loc[...], df[df.index <= ...]); adjust() returns new numbers
FrameAfterMetrics(row, df) == df

\* the test of the key loop without the dictionary
NeedsFetch_Always(key, unique_ticker_ranges) == TRUE

\* if key not in unique_ticker_ranges (analysis.py 274)
NeedsFetch(key, unique_ticker_ranges) == key \notin unique_ticker_ranges

\* what the bar store answers to a fetch that misses the cache: bars, other bars
\* on a later day, or nothing (None is cached like a frame)
StoreFrames == {OkFrame, HotFrame, NoData}

\* rows of the concurrent uploads: two trades of one key and one of another
CacheRows ==
    { Row("AAA", 0, 1, 4, 3, NoData, SpySide),
      Row("AAA", 2, 3, 4, 5, NoData, SpySide),
      Row("BBB", 0, 25, 4, 5, NoData, SpySide) }

CacheUploads == UNION { [1..k -> CacheRows] : k \in 1..2 }

\* a request that has read its upload and not yet looked up a key
NewRequest(upload) ==
    [rows |-> upload, stage |-> "keys", i |-> 1,
     unique_ticker_ranges |-> {}, lookups |-> <<>>, metrics |-> <<>>]

InitCache ==
    /\ rows = <<>>
    /\ pc = "cache"
    /\ enriched_trades = <<>>
    /\ trades_df = <<>>
    /\ revenge_count = 0
    /\ agg = NoAgg
    /\ response = NoResponse
    /\ rng = 1
    /\ served = 0
    /\ luck_log = <<>>
    /\ printed = {}
    /\ call = <<>>
    /\ ret = <<>>
    /\ cache = <<>>
    /\ inflight \in UNION { [1..n -> { NewRequest(u) : u \in CacheUploads }] :
                              n \in 1..MaxInflight }

\* the position of a request after iteration i of one of its two loops
Advance(q) ==
    IF q.i < Len(q.rows) THEN [q EXCEPT !.i = q.i + 1]
    ELSE IF q.stage = "keys" THEN [q EXCEPT !.stage = "enrich", !.i = 1]
    ELSE [q EXCEPT !.stage = "done"]

\* one iteration of the key loop of a request r (analysis.py 263-275): a key not
\* yet in unique_ticker_ranges is looked up in the cache, which fetches it from
\* the store on a miss; unique_ticker_ranges then refers to the cached frame
LookupKey ==
    \E r \in DOMAIN inflight :
      /\ pc = "cache"
      /\ inflight[r].stage = "keys"
      /\ LET q == inflight[r]
             key == KeyOf(q.rows[q.i])
         IN  IF NeedsFetch(key, q.unique_ticker_ranges)
             THEN /\ IF key \in DOMAIN cache THEN cache' = cache
                     ELSE \E f \in StoreFrames : cache' = cache @@ (key :> f)
                  /\ inflight' =
                       [inflight EXCEPT ![r] =
                           Advance([q EXCEPT !.unique_ticker_ranges = @ \cup {key},
                                             !.lookups = Append(@, key)])]
             ELSE /\ cache' = cache
                  /\ inflight' = [inflight EXCEPT ![r] = Advance(q)]
      /\ UNCHANGED <<rows, pc, enriched_trades, trades_df, revenge_count, agg, response,
                     rng, served, luck_log, printed, call, ret>>

\* the metrics of a row from a frame of the cache (analysis.py 292-305)
MetricsFrom(row, market_df) ==
    IF market_df.found THEN calculate_metrics(row, market_df) ELSE SentinelMetrics

\* one iteration of the per-row loop of a request r: calculate_metrics is handed
\* the cached frame itself, not a copy
EnrichTrade ==
    \E r \in DOMAIN inflight :
      /\ pc = "cache"
      /\ inflight[r].stage = "enrich"
      /\ LET q == inflight[r]
             row == q.rows[q.i]
             key == KeyOf(row)
             market_df == cache[key]
         IN  /\ cache' = [cache EXCEPT ![key] = FrameAfterMetrics(row, market_df)]
             /\ inflight' =
                  [inflight EXCEPT ![r] =
                      Advance([q EXCEPT !.metrics = Append(@, MetricsFrom(row, market_df))])]
      /\ UNCHANGED <<rows, pc, enriched_trades, trades_df, revenge_count, agg, response,
                     rng, served, luck_log, printed, call, ret>>

NextCache ==
    \/ LookupKey
    \/ EnrichTrade

SpecCache == InitCache /\ [][NextCache]_vars

\* no entry of the cache is dropped or changed by a step
CacheKept == \A key \in DOMAIN cache : key \in DOMAIN cache' /\ cache'[key] = cache[key]

\* every metrics record a request has computed is the one its row gets from the
\* cached frame of its key, and equal rows have equal metrics in all requests
AloneMetrics ==
    /\ \A r \in DOMAIN inflight : \A i \in 1..Len(inflight[r].metrics) :
         inflight[r].metrics[i]
            = MetricsFrom(inflight[r].rows[i], cache[KeyOf(inflight[r].rows[i])])
    /\ \A r1, r2 \in DOMAIN inflight :
         \A i \in 1..Len(inflight[r1].metrics), j \in 1..Len(inflight[r2].metrics) :
            inflight[r1].rows[i] = inflight[r2].rows[j]
               => inflight[r1].metrics[i] = inflight[r2].metrics[j]

\* a request has looked up each key of its rows at most once
OneLookupPerKey ==
    \A r \in DOMAIN inflight :
        LET lookups == inflight[r].lookups
        IN  /\ \A a, b \in 1..Len(lookups) : lookups[a] = lookups[b] => a = b
            /\ \A a \in 1..Len(lookups) :
                 \E i \in 1..Len(inflight[r].rows) : lookups[a] = KeyOf(inflight[r].rows[i])

\* C24: no step of a request changes a frame held in the cache, whatever the
\* interleaving of the requests that read it, so every request computes for a
\* row the metrics it would compute alone; and a request looks up each distinct
\* (ticker, entry date, exit date) key once
C24_CacheNeverModified == [][CacheKept /\ AloneMetrics' /\ OneLookupPerKey']_vars

\* two requests have finished; both enriched a trade of the same key from bars
\* one of them fetched, and one of them holds two rows of that key
C24_Witness ==
    /\ pc = "cache"
    /\ Len(inflight) = 2
    /\ \A r \in 1..2 : inflight[r].stage = "done"
    /\ \E key \in DOMAIN cache :
         /\ cache[key].found
         /\ \A r \in 1..2 : \E a \in 1..Len(inflight[r].lookups) :
              inflight[r].lookups[a] = key
         /\ \E r \in 1..2 :
              /\ Len(inflight[r].rows) = 2
              /\ \A i \in 1..2 : KeyOf(inflight[r].rows[i]) = key
              /\ Len(inflight[r].lookups) = 1
              /\ inflight[r].metrics[1].fomo_score # -1000

-----------------------------------------------------------------------------
(* Truth score and panic selling *)

\* the truth score of the request had trade i of trades_df had the panic_score p,
\* every other trade and every other metric being what it is
TruthWithPanic(i, p) ==
    LET df == [trades_df EXCEPT ![i].panic_score = p]
        a == [agg EXCEPT !.panic_index = 1000 - WeightedPanicAvg(df)]
    IN  TruthClamp(TruthBase(a, df, revenge_count))

\* C25: with every other trade and metric held fixed, a lower valid panic_score
\* of one trade never gives a higher truth_score and a higher one never a lower
C25_PanicNeverRewarded ==
    response.present =>
        \A i \in 1..Len(trades_df) : \A p \in ScoreGrid \ {-1000} :
            trades_df[i].panic_score # -1000 =>
                /\ p < trades_df[i].panic_score
                      => TruthWithPanic(i, p) <= response.metrics.truth_score
                /\ p > trades_df[i].panic_score
                      => TruthWithPanic(i, p) >= response.metrics.truth_score

-----------------------------------------------------------------------------
(* Priority score and dollar loss *)

\* losses around the $50 boundary, in thousandths
LossGrid == {0, 49000, 49990, 50000, 75000, 100000}

\* frequencies around 0.5 and severities around 0.6
FrequencyGrid == {0, 500, 501, 1000}

SeverityGrid == {0, 600, 601, 1000}

\* two rows of priorities, in either order
RankCalls ==
    { [fn |-> "rank",
       priorities |-> <<BiasRow(b[1], l1, f1, s1), BiasRow(b[2], l2, f2, s2)>>] :
        b \in {<<"FOMO", "Panic Sell">>, <<"Panic Sell", "FOMO">>},
        l1 \in LossGrid, l2 \in LossGrid, f1 \in FrequencyGrid, f2 \in FrequencyGrid,
        s1 \in SeverityGrid, s2 \in SeverityGrid }

InitRank == InitCall(RankCalls)

\* priorities.sort(key=calculate_priority_score, reverse=True) and the numbering
\* (lines 622-635) return
CallRank ==
    /\ pc = "call"
    /\ call.fn = "rank"
    /\ ret' = <<RankPriorities(call.priorities)>>
    /\ pc' = "returned"
    /\ UNCHANGED <<rows, enriched_trades, trades_df, revenge_count, agg, response, rng,
                   served, luck_log, printed, call, cache, inflight>>

SpecRank == InitRank /\ [][CallRank]_vars

\* the rows of a call with equal frequency and severity, larger loss first
LossPairs ==
    { pq \in { <<call.priorities[1], call.priorities[2]>>,
               <<call.priorities[2], call.priorities[1]>> } :
        /\ pq[1].frequency = pq[2].frequency
        /\ pq[1].severity = pq[2].severity
        /\ pq[1].financial_loss > pq[2].financial_loss }

\* the rank the sort gave to a row of the call
RankOf(p) == CHOOSE i \in 1..Len(ret[1]) : ret[1][i].bias = p.bias

AcrossBoostedBoundary(pq) ==
    /\ pq[2].financial_loss < 50000
    /\ pq[1].financial_loss >= 50000
    /\ pq[1].frequency > 500
    /\ pq[1].severity > 600

-----------------------------------------------------------------------------
(* Equity curve points and the decomposition *)

\* the trade of the response a curve point was built from carries the point's
\* entry date, ticker, pnl, scores, revenge flag and regime
PointOfTrade(point, t) ==
    /\ point.date = t.entry_date
    /\ point.ticker = t.ticker
    /\ point.pnl = t.pnl
    /\ point.fomo_score = t.fomo_score
    /\ point.panic_score = t.panic_score
    /\ point.is_revenge = t.is_revenge
    /\ point.market_regime = t.market_regime

\* base_score, volume_weight, regime_weight and contextual_score present with the
\* same values in both, or absent in both
SameDecomposition(point, t) ==
    /\ point.has_ctx = t.has_ctx
    /\ t.has_ctx =>
         /\ point.base_score = t.base_score
         /\ point.volume_weight = t.volume_weight
         /\ point.regime_weight = t.regime_weight
         /\ point.contextual_score = t.contextual_score

\* C27: every point of the equity curve carries the base_score, volume_weight,
\* regime_weight and contextual_score of its trade in the same response
C27_CurveCarriesDecomposition ==
    response.present =>
        \A k \in 1..Len(response.equity_curve) :
            \E i \in 1..Len(response.trades) :
                /\ PointOfTrade(response.equity_curve[k], response.trades[i])
                /\ SameDecomposition(response.equity_curve[k], response.trades[i])

-----------------------------------------------------------------------------
(* Revenge detection and the order of the upload *)

\* a loss bought and sold within hour 0, a winner of the same ticker entered in
\* that hour, and a losing trade of another ticker
TieRows ==
    { Row("AAA", 0, 0, 4, 3, OkFrame, SpySide),
      Row("AAA", 0, 24, 4, 5, HotFrame, SpyBull),
      Row("BBB", 0, 1, 4, 3, OkFrame, SpyBear) }

\* the three rows in every upload order, and the two that tie in both orders
TieBatches ==
    UploadOrders(TieRows) \cup UploadOrders({ r \in TieRows : r.ticker = "AAA" })

InitTies == InitWith(TieBatches, {1})

SpecTies == InitTies /\ [][Next]_vars

\* the per-row loop, the sort and the revenge scan (lines 277-364) on an upload
RevengeOf(upload) ==
    { RevengeScan(df, 2, 0) :
        df \in SortOutcomes([i \in 1..Len(upload) |-> EnrichRow(upload[i])]) }

\* every upload order of the rows of an upload
OrdersOf(upload) ==
    { b \in [1..Len(upload) -> { upload[i] : i \in 1..Len(upload) }] :
        \A x \in { upload[i] : i \in 1..Len(upload) } :
            Cardinality({ i \in 1..Len(upload) : b[i] = x })
                = Cardinality({ i \in 1..Len(upload) : upload[i] = x }) }

FlaggedInFrame(df) ==
    { <<df[i].ticker, df[i].entry_dt, df[i].exit_dt, df[i].pnl>> :
        i \in { k \in 1..Len(df) : df[k].is_revenge } }

FlaggedInResponse(trades) ==
    { <<trades[i].ticker, trades[i].entry_date, trades[i].exit_date, trades[i].pnl>> :
        i \in { k \in 1..Len(trades) : trades[k].is_revenge } }

\* C28: the trades flagged is_revenge and the revenge_trading_count of a response
\* are those of the analysis of every permutation of the uploaded rows, also
\* when same-ticker trades share an entry timestamp
C28_RevengeOrderIndependent ==
    response.present =>
        \A upload \in OrdersOf(rows) :
            \A r \in RevengeOf(upload) :
                /\ r.count = response.metrics.revenge_trading_count
                /\ FlaggedInFrame(r.df) = FlaggedInResponse(response.trades)

-----------------------------------------------------------------------------
(* Disposition ratio of losers held longer *)

\* the losers of the response were held longer on average than its winners:
\* mean(loser days) > mean(winner days), with at least one of each
LosersHeldLonger(trades) ==
    LET w == SelectSeq(trades, LAMBDA t : t.pnl > 0)
        l == SelectSeq(trades, LAMBDA t : t.pnl <= 0)
        sumW == SumSeq([i \in 1..Len(w) |-> w[i].duration_days])
        sumL == SumSeq([i \in 1..Len(l) |-> l[i].duration_days])
    IN  /\ Len(w) >= 1
        /\ Len(l) >= 1
        /\ sumL * Len(w) > sumW * Len(l)

\* C29: with at least one winner and one loser, and the losers' average holding
\* time above the winners', disposition_ratio is above 1, also when every winner
\* was closed on its entry day
C29_LosersHeldLongerAboveOne ==
    (response.present /\ LosersHeldLonger(response.trades)) =>
        response.metrics.disposition_ratio > 1000

-----------------------------------------------------------------------------
(* FOMO base score and the split adjustment *)

\* the row's daily entry bar was found and read, with no pre-entry intraday bars
DailyBarsUsed(row) == row.md.found /\ ~ row.md.raises /\ row.md.intra # "pre"

\* the entry price is above 2 x or below 0.5 x the entry day's market high
SplitAdjusted(row) ==
    /\ row.md.eHigh > 0
    /\ (row.entry_price > 2 * row.md.eHigh \/ 2 * row.entry_price < row.md.eHigh)

\* (entry_price - day_low) / (day_high - day_low) clamped to [0, 1], in
\* thousandths
RangePosition(row) ==
    LET pos == ((row.entry_price - row.md.eLow) * 1000) \div (row.md.eHigh - row.md.eLow)
    IN  IF pos < 0 THEN 0 ELSE IF pos > 1000 THEN 1000 ELSE pos

\* C30: on daily bars, a split-adjusted trade with a positive entry-day range has
\* fomo_score_base 1.0 whatever its entry price; an unadjusted trade has the
\* position of the entry price in the day's range clamped to [0, 1], 0.5 on a
\* zero range and 0.0 when bought at the day's low
C30_FomoBaseUnderSplit ==
    \A i \in 1..Len(enriched_trades) :
        DailyBarsUsed(rows[i]) =>
            LET row == rows[i]
                t == enriched_trades[i]
                day_range == row.md.eHigh - row.md.eLow
            IN  /\ (SplitAdjusted(row) /\ day_range > 0) => t.fomo_score_base = 1000
                /\ (~ SplitAdjusted(row) /\ day_range > 0) =>
                     t.fomo_score_base = RangePosition(row)
                /\ (~ SplitAdjusted(row) /\ day_range = 0) => t.fomo_score_base = 500
                /\ (~ SplitAdjusted(row) /\ day_range > 0
                      /\ row.entry_price = row.md.eLow) => t.fomo_score_base = 0

\* a trade bought at 1 on a day ranging 2..4 (under half the day's high, below
\* the unadjusted range) is answered with the top score
C30_Witness ==
    /\ response.present
    /\ Len(rows) = 1
    /\ DailyBarsUsed(rows[1])
    /\ rows[1].entry_price = 1
    /\ rows[1].md.eHigh = 4
    /\ rows[1].md.eLow = 2
    /\ enriched_trades[1].fomo_score_base = 1000
    /\ response.trades[1].fomo_score = 1000

\* Scenario B: a trade bought at the low of a day ranging 3..5, no adjustment
C30_WitnessLow ==
    /\ response.present
    /\ Len(rows) = 1
    /\ DailyBarsUsed(rows[1])
    /\ rows[1].entry_price = 3
    /\ rows[1].md.eHigh = 5
    /\ rows[1].md.eLow = 3
    /\ enriched_trades[1].fomo_score_base = 0
    /\ response.trades[1].fomo_score = 0

=============================================================================
